---- MODULE Spec2Model ----
(***************************************************************************)
(* hey-macro: the daily log synchronisation engine.                        *)
(*                                                                         *)
(*   SpecStore   services/storage: replaceDailyFoodEntries, statement by   *)
(*               statement, and getOrCreateDailyLog over the two tables.   *)
(*   Spec        HomeScreen + useVoiceFoodLogger: voice and text logging   *)
(*               attempts, cancellation, the two save effects.             *)
(*   SpecCache   useAppData: logCache, loadData, changeDate, refresh,      *)
(*               invalidateCache and the background prefetch.              *)
(***************************************************************************)
EXTENDS Integers, Sequences, FiniteSets, TLC

\* ------------------------------------------------------------------ bounds
MaxItems == 2        \* most food items in one ExtractionResult
MaxPrior == 1        \* most food items stored in the day when a SpecStore run starts
MaxCalls == 1        \* most replaceDailyFoodEntries calls with a new result in one SpecStore run
NumDays == 2         \* calendar dates of SpecCache: 1..NumDays, the last one today
MaxLoads == 1        \* most loadData calls in flight at once in SpecCache
MaxRequests == 1     \* most parseFoodInput calls in one SpecGen run
MaxWrites == 1       \* most writes to stored days in one SpecCache run
MaxEdits == 1        \* most deleteFoodEntry and updateFoodEntry calls in one SpecStore run
MaxDay == 3          \* last local day of a SpecTargets run
MaxUpdates == 2      \* most updateMacroTargets calls in one SpecTargets run
MaxSessions == 2     \* most startRecording calls in one SpecVoice run
MaxStops == 2        \* most stopRecordingAndParse calls in one SpecVoice run
MaxCancels == 1      \* most cancelRecording calls in one SpecVoice run
MaxTyped == 2        \* the gram amounts typed in SpecSolver are 0, 50, ..., 50 * MaxTyped
MaxKeys == 5         \* most edits of the target fields in one SpecSolver run
MaxHalfHours == 64   \* half hours that pass in one SpecDates run
MaxAway == 2         \* how many days from today a day is selected in SpecPrefetch
MaxChanges == 1      \* most changeDate and refresh calls in one SpecPrefetch run
MaxFailed == 1       \* most prefetch loads that fail in one SpecPrefetch run
MaxDayOps == 3       \* most changeDate calls and extraction requests in one SpecDays run

\* ------------------------------------------------------------- data model
mealTypes == <<"breakfast", "lunch", "dinner", "snacks">>
MealSet == {mealTypes[i] : i \in 1..Len(mealTypes)}

\* FoodItem values as they leave validateFoodItem: a name, a quantity and
\* four non-negative integer macros.
Egg == [name |-> "egg", quantity |-> "3", calories |-> 7, protein |-> 3, carbs |-> 1, fat |-> 2]
Toast == [name |-> "toast", quantity |-> "1 slice", calories |-> 4, protein |-> 1, carbs |-> 5, fat |-> 0]
Items == {Egg, Toast}

ZeroTotals == [calories |-> 0, protein |-> 0, carbs |-> 0, fat |-> 0]

SeqsUpTo(S, n) == UNION {[1..k -> S] : k \in 0..n}

RECURSIVE Flatten(_)
Flatten(seqOfSeqs) ==
  IF seqOfSeqs = <<>> THEN <<>>
  ELSE Head(seqOfSeqs) \o Flatten(Tail(seqOfSeqs))

\* [...foodData.breakfast, ...foodData.lunch, ...foodData.dinner, ...foodData.snacks]
allItems(foodData) == Flatten([i \in 1..Len(mealTypes) |-> foodData[mealTypes[i]]])

\* The LLMResponse values of the model: four meal arrays, MaxItems items in all.
Results == {r \in [MealSet -> SeqsUpTo(Items, MaxItems)] : Len(allItems(r)) <= MaxItems}

EmptyResult == [m \in MealSet |-> <<>>]

RECURSIVE SumMacros(_)
\* items.reduce((sum, item) => sum + item.<macro>, 0), the four sums at once
SumMacros(items) ==
  IF items = <<>> THEN ZeroTotals
  ELSE LET h == Head(items)
           t == SumMacros(Tail(items))
       IN [calories |-> h.calories + t.calories,
           protein |-> h.protein + t.protein,
           carbs |-> h.carbs + t.carbs,
           fat |-> h.fat + t.fat]

RECURSIVE SelectSeqBy(_, _)
\* rows of a table, in table order, whose meal is m
SelectSeqBy(rows, m) ==
  IF rows = <<>> THEN <<>>
  ELSE IF Head(rows).mealType = m
       THEN <<Head(rows)>> \o SelectSeqBy(Tail(rows), m)
       ELSE SelectSeqBy(Tail(rows), m)

\* ---------------------------------------------------------------- storage
\* The database of one day: the food_entries rows of the day's dailyLogID
\* (in rowid order), the totals columns of its daily_logs row, and the
\* source of fresh foodEntryIDs.
EmptyDB == [entries |-> <<>>, totals |-> ZeroTotals, nextID |-> 1]

\* Variant: the DELETE matches no row.
DeleteEntries_keepsRows(d) == d

\* DELETE FROM food_entries WHERE dailyLogID = ?
DeleteEntries(d) == [d EXCEPT !.entries = <<>>]

\* Variant: the carbs and fat parameters are bound in the wrong order.
InsertEntry_swapsMacros(d, m, food) ==
  [d EXCEPT !.entries = Append(@, [foodEntryID |-> d.nextID, mealType |-> m,
                                   name |-> food.name, quantity |-> food.quantity,
                                   calories |-> food.calories, protein |-> food.protein,
                                   carbs |-> food.fat, fat |-> food.carbs]),
            !.nextID = @ + 1]

\* INSERT INTO food_entries (...) VALUES (uuidv4(), ..., mealType, food.*, now, now)
InsertEntry(d, m, food) ==
  [d EXCEPT !.entries = Append(@, [foodEntryID |-> d.nextID, mealType |-> m,
                                   name |-> food.name, quantity |-> food.quantity,
                                   calories |-> food.calories, protein |-> food.protein,
                                   carbs |-> food.carbs, fat |-> food.fat]),
            !.nextID = @ + 1]

\* UPDATE daily_logs SET totalCalories = ?, ... WHERE dailyLogID = ?
UpdateTotals(d, t) == [d EXCEPT !.totals = t]

\* The (mealType, food) pairs in the order the two nested loops insert them.
InsertPlan(foodData) ==
  Flatten([i \in 1..Len(mealTypes) |->
             [j \in 1..Len(foodData[mealTypes[i]]) |->
                [mealType |-> mealTypes[i], food |-> foodData[mealTypes[i]][j]]]])

RECURSIVE InsertAll(_, _)
InsertAll(d, plan) ==
  IF plan = <<>> THEN d
  ELSE InsertAll(InsertEntry(d, Head(plan).mealType, Head(plan).food), Tail(plan))

\* Variant: a result without items is taken to mean "nothing to save".
ReplaceAll_skipsEmpty(d, foodData) ==
  IF allItems(foodData) = <<>> THEN d
  ELSE UpdateTotals(InsertAll(DeleteEntries(d), InsertPlan(foodData)), SumMacros(allItems(foodData)))

\* replaceDailyFoodEntries when every statement succeeds.
ReplaceAll(d, foodData) ==
  UpdateTotals(InsertAll(DeleteEntries(d), InsertPlan(foodData)), SumMacros(allItems(foodData)))

\* The FoodEntry objects getOrCreateDailyLog pushes to a meal array: the row
\* without its mealType.
Strip(rows) ==
  [i \in 1..Len(rows) |->
     [foodEntryID |-> rows[i].foodEntryID, name |-> rows[i].name, quantity |-> rows[i].quantity,
      calories |-> rows[i].calories, protein |-> rows[i].protein,
      carbs |-> rows[i].carbs, fat |-> rows[i].fat]]

\* Variant: the grouping switch has no case for 'snacks'.
DailyLogOf_dropsSnacks(d) ==
  [meals |-> [m \in MealSet |->
                IF m = "snacks" THEN <<>> ELSE Strip(SelectSeqBy(d.entries, m))],
   totals |-> SumMacros(d.entries)]

\* The DailyLog getOrCreateDailyLog returns for an existing daily_logs row:
\* the entries grouped by mealType, the totals summed over the entries.
DailyLogOf(d) ==
  [meals |-> [m \in MealSet |-> Strip(SelectSeqBy(d.entries, m))],
   totals |-> SumMacros(d.entries)]

\* The database after getOrCreateDailyLog: the totals are written back when
\* the stored ones differ from the computed ones.
WriteBackTotals(d) ==
  IF d.totals # SumMacros(d.entries) THEN UpdateTotals(d, SumMacros(d.entries)) ELSE d

\* DELETE FROM food_entries WHERE foodEntryID = ?
DeleteEntry(d, foodEntryID) ==
  [d EXCEPT !.entries = SelectSeq(@, LAMBDA row : row.foodEntryID # foodEntryID)]

\* The updates of the model: a function from the fields that are given to
\* their new values.
NoUpdates == [f \in {} |-> 0]
Updates == {NoUpdates, [calories |-> 9], [name |-> "omelette", protein |-> 2]}

\* UPDATE food_entries SET <the fields given> WHERE foodEntryID = ?;
\* no statement when no field is given.
UpdateEntry(d, foodEntryID, updates) ==
  [d EXCEPT !.entries =
     [i \in 1..Len(@) |->
        IF @[i].foodEntryID = foodEntryID
        THEN [f \in DOMAIN @[i] |-> IF f \in DOMAIN updates THEN updates[f] ELSE @[i][f]]
        ELSE @[i]]]

\* A FoodEntry or row seen as the FoodItem it carries.
AsItems(rows) ==
  [i \in 1..Len(rows) |->
     [name |-> rows[i].name, quantity |-> rows[i].quantity, calories |-> rows[i].calories,
      protein |-> rows[i].protein, carbs |-> rows[i].carbs, fat |-> rows[i].fat]]

\* ------------------------------------------------------ SpecStore: state
VARIABLES
  db,        \* the stored day: food_entries rows, daily_logs totals, id source
  impl,      \* which replaceDailyFoodEntries the build contains
  rp,        \* the current (or last) replaceDailyFoodEntries call
  numCalls,  \* replaceDailyFoodEntries calls made since Init
  view,      \* the DailyLog returned by getOrCreateDailyLog since the last statement
  prev       \* the call completed just before the current one, and the day it left

storeVars == <<db, impl, rp, numCalls, view, prev>>

VARIABLES
  isRecording,        \* useVoiceInput: isRecording
  isProcessing,       \* useVoiceFoodLogger: isProcessing
  parsedFood,         \* useVoiceFoodLogger: parsedFood
  llmError,           \* useVoiceFoodLogger: llmError
  cancelledRef,       \* useVoiceFoodLogger: cancelledRef.current
  textInput,          \* HomeScreen: textInput
  isTextProcessing,   \* HomeScreen: isTextProcessing
  textParsedFood,     \* HomeScreen: textParsedFood
  textError,          \* HomeScreen: textError
  textCancelledRef,   \* HomeScreen: textCancelledRef.current
  isSavingFood,       \* HomeScreen: isSavingFood
  dailyLog,           \* useAppData: the DailyLog on display
  calls,              \* parseFoodInput calls in flight
  saves,              \* runs of the two save effects not yet finished or cleaned up
  nextAttempt,        \* number the next extraction request gets
  cancelledAttempts   \* attempts cancelled while their extraction was in flight

attemptVars == <<isRecording, isProcessing, parsedFood, llmError, cancelledRef, textInput,
                 isTextProcessing, textParsedFood, textError, textCancelledRef, isSavingFood,
                 calls, saves, nextAttempt, cancelledAttempts>>

uiVars == <<attemptVars, dailyLog>>

VARIABLES
  selectedDate,   \* useAppData: selectedDate
  logCache,       \* useAppData: logCache.current
  loads,          \* loadData calls in progress
  fetches         \* getOrCreateDailyLog calls of prefetchSurroundingDays in flight

cacheVars == <<selectedDate, logCache, loads, fetches>>

VARIABLES
  GEMINI_API_KEY, \* gemini.ts: the configured key, "" when there is none
  genImpl,        \* which geminiProvider.generate is built in
  gen,            \* the generate call of the request in progress
  pfi,            \* the parseFoodInput call of the request in progress
  numRequests     \* parseFoodInput calls so far

genVars == <<GEMINI_API_KEY, genImpl, gen, pfi, numRequests>>

VARIABLES
  mutations,      \* handlers that are awaiting their write to a stored day
  numWrites       \* such handlers so far

mutVars == <<mutations, numWrites>>

VARIABLES
  wasBackgroundedDuringProcessing,      \* useVoiceFoodLogger: the ref of that name
  textWasBackgroundedDuringProcessing,  \* HomeScreen: the ref of that name
  backgroundedAttempts                  \* history: ids of the requests in flight at a backgrounding

bgVars == <<wasBackgroundedDuringProcessing, textWasBackgroundedDuringProcessing,
            backgroundedAttempts>>

VARIABLES
  numEdits        \* deleteFoodEntry and updateFoodEntry calls so far

editVars == <<numEdits>>

VARIABLES
  clock,          \* the local day the device is in
  macroTargets,   \* the macro_targets rows of the user: none or one
  logTargets,     \* the target columns of the daily_logs row of each day that has one
  umt,            \* the updateMacroTargets call in progress
  numUpdates      \* updateMacroTargets calls so far

targetVars == <<clock, macroTargets, logTargets, umt, numUpdates>>

VARIABLES
  transcript,        \* useVoiceInput: transcript
  transcriptRef,     \* useVoiceInput: transcriptRef.current
  error,             \* useVoiceInput: error, <<>> for null
  stopResolverRef,   \* useVoiceInput: the stop call stopResolverRef.current resolves, 0 for null
  timers,            \* pending 500 ms timeouts of stopRecording
  voice,             \* the recognition session of the Voice module
  stops,             \* stopRecordingAndParse calls in progress
  handed,            \* history: the transcripts passed to parseFoodInput
  outcomes,          \* history: what each recording session has yielded
  cancelledSessions, \* history: the sessions cancelRecording was called in
  numSessions,       \* startRecording calls so far
  numStops,          \* stopRecordingAndParse calls so far
  numCancels         \* cancelRecording calls so far

captureVars == <<transcript, transcriptRef, error, stopResolverRef, timers, voice, stops,
                 handed, outcomes, cancelledSessions, numSessions, numStops, numCancels>>

VARIABLES
  values,           \* useMacroCalculator: values, the text of the four fields
  calculatedField,  \* useMacroCalculator: calculatedField, "" for null
  numKeys           \* edits of the target fields so far

solverVars == <<values, calculatedField, numKeys>>

VARIABLES
  dateImpl,      \* which of the repository's day-key helpers is in the build
  tz,            \* the device's offset from UTC, in half hours
  now,           \* new Date(): half hours since 2023-01-01T00:00Z
  selectedDay,   \* useAppData: selectedDate as a day key, <<year, month, day>>
  keyedAt,       \* when selectedDay was last set to today
  prefetched     \* the day keys prefetchSurroundingDays has computed, and their centre

dateVars == <<dateImpl, tz, now, selectedDay, keyedAt, prefetched>>

VARIABLES
  centreDay,     \* useAppData: selectedDate as a day key, the centre of the prefetch
  cachedKeys,    \* the day keys logCache.current has
  pendingLoad,   \* the day key a loadData call is fetching: <<key>>, or <<>> for none
  issued,        \* the day keys the last prefetchSurroundingDays call loads
  inFlight,      \* the day keys prefetch loads are in progress for
  numChanges,    \* changeDate and refresh calls so far
  numFailed      \* prefetch loads that failed so far

prefetchVars == <<centreDay, cachedKeys, pendingLoad, issued, inFlight, numChanges, numFailed>>

VARIABLES
  appLoading,    \* useAppData: loading
  loadError,     \* useAppData: error
  request,       \* the extraction request in flight: <<r>>, or <<>> for none
  written,       \* history: the saves whose replaceDailyFoodEntries has completed
  numDayOps,     \* changeDate calls and extraction requests so far
  dailyLogRows,  \* daily_logs: how many rows of the user each date has
  insertErrors   \* history: the callers whose INSERT INTO daily_logs was rejected

dayVars == <<appLoading, loadError, request, written, numDayOps, dailyLogRows, insertErrors>>

\* The variables of the specifications after SpecGen.
restVars == <<targetVars, captureVars, solverVars, dateVars, prefetchVars, dayVars>>

\* The variables declared after those of Spec, SpecStore and SpecCache.
otherVars == <<genVars, mutVars, bgVars, editVars, restVars>>

vars == <<storeVars, uiVars, cacheVars, otherVars>>

\* useState(null) values. An LLMResponse or an error message in the state
\* carries the number of the attempt it came from.
NoFood == [id |-> 0, res |-> EmptyResult]
NoError == [id |-> 0, msg |-> ""]

\* The cache variables where the cache is not part of the specification.
NoCache ==
  /\ selectedDate = 0
  /\ logCache = <<>>
  /\ loads = {}
  /\ fetches = {}

\* No generate call: let lastError = null, no attempt made.
IdleGen == [pc |-> "idle", attempt |-> 0, calls |-> 0, sleeps |-> <<>>, errors |-> <<>>,
            response |-> EmptyResult, error |-> <<>>]

\* No parseFoodInput call.
IdlePfi == [pc |-> "idle", result |-> EmptyResult, error |-> <<>>]

\* The request variables where no request is part of the specification.
NoGen ==
  /\ GEMINI_API_KEY = "key"
  /\ genImpl = "retry"
  /\ gen = IdleGen
  /\ pfi = IdlePfi
  /\ numRequests = 0

\* No handler is writing to a stored day.
NoMut ==
  /\ mutations = {}
  /\ numWrites = 0

\* The app has not been in the background.
NoBg ==
  /\ wasBackgroundedDuringProcessing = FALSE
  /\ textWasBackgroundedDuringProcessing = FALSE
  /\ backgroundedAttempts = {}

\* No single entry has been deleted or updated.
NoEdit == numEdits = 0

\* No targets were set and no day has a log.
NoTargets ==
  /\ clock = 1
  /\ macroTargets = {}
  /\ logTargets = <<>>
  /\ umt = [pc |-> "idle", today |-> 0]
  /\ numUpdates = 0

\* A transcript of the model: the session it was heard in and its text.
NoText == [session |-> 0, text |-> ""]

\* The Voice module without a session.
VoiceOff == [session |-> 0, phase |-> "off", endSent |-> FALSE, finalSent |-> FALSE]

\* useVoiceInput after its first render, nothing recorded yet.
NoCapture ==
  /\ transcript = NoText
  /\ transcriptRef = NoText
  /\ error = <<>>
  /\ stopResolverRef = 0
  /\ timers = 0
  /\ voice = VoiceOff
  /\ stops = {}
  /\ handed = {}
  /\ outcomes = {}
  /\ cancelledSessions = {}
  /\ numSessions = 0
  /\ numStops = 0
  /\ numCancels = 0

\* getOrCreateMacroTargets: defaultTargets
defaultTargets == [calories |-> 2690, protein |-> 170, carbs |-> 300, fat |-> 90]

\* The text of a field: set is whether it is not '', num whether parseFloat
\* reads a number from it, n that number.
Blank == [set |-> FALSE, num |-> FALSE, n |-> 0]
Dot == [set |-> TRUE, num |-> FALSE, n |-> 0]
String(n) == [set |-> TRUE, num |-> TRUE, n |-> n]

MacroFields == {"calories", "protein", "carbs", "fat"}

\* useMacroCalculator: the fields show the targets, none is calculated.
FromTargets(targets) == [f \in MacroFields |-> String(targets[f])]

NoSolver ==
  /\ values = FromTargets(defaultTargets)
  /\ calculatedField = ""
  /\ numKeys = 0

\* The day keys of a device on UTC at the start of 2023.
NoDates ==
  /\ dateImpl = "local"
  /\ tz = 0
  /\ now = 0
  /\ selectedDay = <<2023, 1, 1>>
  /\ keyedAt = 0
  /\ prefetched = [centre |-> <<2023, 1, 1>>, keys |-> <<>>]

\* No day has been loaded or prefetched.
NoPrefetch ==
  /\ centreDay = <<2023, 1, 1>>
  /\ cachedKeys = {}
  /\ pendingLoad = <<>>
  /\ issued = {}
  /\ inFlight = {}
  /\ numChanges = 0
  /\ numFailed = 0

\* No loadData call has run and nothing was asked or saved.
NoDayView ==
  /\ appLoading = FALSE
  /\ loadError = FALSE
  /\ request = <<>>
  /\ written = {}
  /\ numDayOps = 0
  /\ dailyLogRows = <<>>
  /\ insertErrors = {}

\* The specifications after SpecGen are at rest.
NoRest == NoTargets /\ NoCapture /\ NoSolver /\ NoDates /\ NoPrefetch /\ NoDayView

InitUI ==
  /\ isRecording = FALSE
  /\ isProcessing = FALSE
  /\ parsedFood = NoFood
  /\ llmError = NoError
  /\ cancelledRef = FALSE
  /\ textInput = ""
  /\ isTextProcessing = FALSE
  /\ textParsedFood = NoFood
  /\ textError = NoError
  /\ textCancelledRef = FALSE
  /\ isSavingFood = FALSE
  /\ calls = {}
  /\ saves = {}
  /\ nextAttempt = 1
  /\ cancelledAttempts = {}

\* The two replaceDailyFoodEntries of the repository: the one that wraps its
\* statements in withTransactionAsync, and the one that awaits them one by one.
Impls == {"transaction", "plain"}

NoView == [pc |-> "none", log |-> DailyLogOf(EmptyDB)]
NoPrev == [pc |-> "none", foodData |-> EmptyResult, log |-> DailyLogOf(EmptyDB)]

\* The day holds what an earlier, completed replaceDailyFoodEntries(r0) left.
InitStore ==
  /\ InitUI
  /\ NoCache
  /\ NoGen
  /\ NoMut
  /\ NoBg
  /\ NoEdit
  /\ NoRest
  /\ dailyLog = DailyLogOf(EmptyDB)
  /\ impl \in Impls
  /\ \E r0 \in {r \in Results : Len(allItems(r)) <= MaxPrior} :
       /\ db = ReplaceAll(EmptyDB, r0)
       /\ rp = [pc |-> "done", foodData |-> r0, plan |-> <<>>, snap |-> EmptyDB, again |-> TRUE]
  /\ numCalls = 0
  /\ view = NoView
  /\ prev = NoPrev

Running == rp.pc \in {"begun", "inserting", "totals", "commit"}

\* replaceDailyFoodEntries(userID, dailyLogID, foodData) is called: the totals
\* are computed and, in the transactional version, BEGIN is executed.
Begin(foodData, again) ==
  /\ prev' = IF rp.pc = "done"
             THEN [pc |-> "done", foodData |-> rp.foodData, log |-> DailyLogOf(db)]
             ELSE NoPrev
  /\ rp' = [pc |-> "begun", foodData |-> foodData, plan |-> InsertPlan(foodData),
            snap |-> db, again |-> again]
  /\ view' = NoView
  /\ UNCHANGED <<db, impl, uiVars, cacheVars, otherVars>>

ReplaceCall(foodData) ==
  /\ ~Running
  /\ numCalls < MaxCalls
  /\ numCalls' = numCalls + 1
  /\ Begin(foodData, FALSE)

\* The caller passes the result of the call that has just completed once more.
ReplaceAgain ==
  /\ rp.pc = "done"
  /\ ~rp.again
  /\ UNCHANGED numCalls
  /\ Begin(rp.foodData, TRUE)

\* await database.runAsync('DELETE FROM food_entries WHERE dailyLogID = ?')
ReplaceDelete ==
  /\ rp.pc = "begun"
  /\ db' = DeleteEntries(db)
  /\ rp' = [rp EXCEPT !.pc = IF rp.plan = <<>> THEN "totals" ELSE "inserting"]
  /\ view' = NoView
  /\ UNCHANGED <<impl, numCalls, prev, uiVars, cacheVars, otherVars>>

\* one turn of the insert loops
ReplaceInsert ==
  /\ rp.pc = "inserting"
  /\ db' = InsertEntry(db, Head(rp.plan).mealType, Head(rp.plan).food)
  /\ rp' = [rp EXCEPT !.plan = Tail(@),
                      !.pc = IF Tail(rp.plan) = <<>> THEN "totals" ELSE "inserting"]
  /\ view' = NoView
  /\ UNCHANGED <<impl, numCalls, prev, uiVars, cacheVars, otherVars>>

\* await database.runAsync('UPDATE daily_logs SET totalCalories = ?, ...')
\* and, in the plain version, the return.
ReplaceTotals ==
  /\ rp.pc = "totals"
  /\ db' = UpdateTotals(db, SumMacros(allItems(rp.foodData)))
  /\ rp' = [rp EXCEPT !.pc = IF impl = "transaction" THEN "commit" ELSE "done"]
  /\ view' = NoView
  /\ UNCHANGED <<impl, numCalls, prev, uiVars, cacheVars, otherVars>>

\* withTransactionAsync: COMMIT after the callback returned.
ReplaceCommit ==
  /\ rp.pc = "commit"
  /\ rp' = [rp EXCEPT !.pc = "done"]
  /\ view' = NoView
  /\ UNCHANGED <<db, impl, numCalls, prev, uiVars, cacheVars, otherVars>>

\* The database as a failing statement leaves it: withTransactionAsync
\* executes ROLLBACK and rethrows; without a transaction the statements
\* already executed stay. uuids drawn so far stay used either way.
AfterFailure(i, d, snap) ==
  IF i = "transaction" THEN [snap EXCEPT !.nextID = d.nextID] ELSE d

\* The next statement (DELETE, an INSERT, the UPDATE or COMMIT) throws.
ReplaceFail ==
  /\ Running
  /\ db' = AfterFailure(impl, db, rp.snap)
  /\ rp' = [rp EXCEPT !.pc = "failed"]
  /\ view' = NoView
  /\ UNCHANGED <<impl, numCalls, prev, uiVars, cacheVars, otherVars>>

\* getOrCreateDailyLog(userID, date) on the day's existing daily_logs row.
GetOrCreateDailyLog ==
  /\ view' = [pc |-> "read", log |-> DailyLogOf(db)]
  /\ db' = WriteBackTotals(db)
  /\ UNCHANGED <<impl, rp, numCalls, prev, uiVars, cacheVars, otherVars>>

\* deleteFoodEntry(foodEntryID), between two replaceDailyFoodEntries calls.
DeleteFoodEntry(foodEntryID) ==
  /\ ~Running
  /\ numEdits < MaxEdits
  /\ numEdits' = numEdits + 1
  /\ db' = DeleteEntry(db, foodEntryID)
  /\ rp' = [rp EXCEPT !.pc = "idle"]
  /\ view' = NoView
  /\ UNCHANGED <<impl, numCalls, prev, uiVars, cacheVars, genVars, mutVars, bgVars, restVars>>

\* updateFoodEntry(foodEntryID, updates), between two replaceDailyFoodEntries calls.
UpdateFoodEntry(foodEntryID, updates) ==
  /\ ~Running
  /\ numEdits < MaxEdits
  /\ numEdits' = numEdits + 1
  /\ db' = UpdateEntry(db, foodEntryID, updates)
  /\ rp' = [rp EXCEPT !.pc = "idle"]
  /\ view' = NoView
  /\ UNCHANGED <<impl, numCalls, prev, uiVars, cacheVars, genVars, mutVars, bgVars, restVars>>

NextStore ==
  \/ \E foodData \in Results : ReplaceCall(foodData)
  \/ ReplaceAgain
  \/ ReplaceDelete
  \/ ReplaceInsert
  \/ ReplaceTotals
  \/ ReplaceCommit
  \/ ReplaceFail
  \/ GetOrCreateDailyLog
  \/ \E foodEntryID \in 1..(db.nextID - 1) : DeleteFoodEntry(foodEntryID)
  \/ \E foodEntryID \in 1..(db.nextID - 1), updates \in Updates : UpdateFoodEntry(foodEntryID, updates)

SpecStore == InitStore /\ [][NextStore]_vars

\* ----------------------------------------------------- SpecStore: claims
\* How often x occurs in a sequence.
RECURSIVE Count(_, _)
Count(seq, x) ==
  IF seq = <<>> THEN 0
  ELSE (IF Head(seq) = x THEN 1 ELSE 0) + Count(Tail(seq), x)

\* Two sequences hold the same items, each as often.
SameItems(a, b) ==
  /\ Len(a) = Len(b)
  /\ \A i \in 1..Len(a) : Count(a, a[i]) = Count(b, a[i])

\* C4: replaceDailyFoodEntries is all-or-nothing: after a failed call the
\* day's stored entries and totals are what they were before the call;
\* after a successful one the old entries are gone, the entries of the four
\* meal slots are present and the totals are those of the result.
C4_ReplaceAllOrNothing ==
  /\ rp.pc = "failed" =>
       /\ db.entries = rp.snap.entries
       /\ db.totals = rp.snap.totals
  /\ rp.pc = "done" =>
       /\ \A i \in 1..Len(db.entries) :
            \A j \in 1..Len(rp.snap.entries) :
              db.entries[i].foodEntryID # rp.snap.entries[j].foodEntryID
       /\ \A m \in MealSet : SameItems(AsItems(SelectSeqBy(db.entries, m)), rp.foodData[m])
       /\ db.totals = SumMacros(allItems(rp.foodData))

\* The same for the build that uses withTransactionAsync, until the day is
\* read (a read writes the sums over the entries back as the totals).
TransactionAllOrNothing == (impl = "transaction" /\ view.pc = "none") => C4_ReplaceAllOrNothing

\* C5: after a successful replaceDailyFoodEntries(R), the DailyLog a read
\* returns has totals equal to the sums of the macros over all items of R.
C5_TotalsAreSumOfResult ==
  (rp.pc = "done" /\ view.pc = "read") =>
    view.log.totals = SumMacros(allItems(rp.foodData))

C5_Witness ==
  /\ rp.pc = "done" /\ view.pc = "read" /\ numCalls = 1
  /\ Len(allItems(rp.foodData)) = 2
  /\ rp.snap.entries # <<>>
  /\ view.log.totals.calories = 11

\* C6: a second replaceDailyFoodEntries with the result of the call before
\* it leaves a DailyLog with the totals and the per-meal entry counts that
\* the first call left.
C6_ReplaceTwiceSameAsOnce ==
  (rp.pc = "done" /\ view.pc = "read" /\ prev.pc = "done" /\ prev.foodData = rp.foodData) =>
    /\ view.log.totals = prev.log.totals
    /\ \A m \in MealSet : Len(view.log.meals[m]) = Len(prev.log.meals[m])

C6_Witness ==
  /\ rp.pc = "done" /\ view.pc = "read" /\ prev.pc = "done" /\ prev.foodData = rp.foodData
  /\ numCalls = 1 /\ rp.again
  /\ Len(rp.foodData["breakfast"]) = 2

\* C7: after a successful replaceDailyFoodEntries(R) on a day with prior
\* content, every meal slot of the DailyLog read back holds exactly the
\* items of that slot of R; slots empty in R are empty.
C7_SlotsHoldExactlyResult ==
  (rp.pc = "done" /\ view.pc = "read") =>
    \A m \in MealSet : SameItems(AsItems(view.log.meals[m]), rp.foodData[m])

C7_Witness ==
  /\ rp.pc = "done" /\ view.pc = "read" /\ numCalls = 1
  /\ rp.snap.entries # <<>>
  /\ rp.snap.entries[1].mealType = "lunch"
  /\ rp.foodData["lunch"] = <<>>
  /\ Len(rp.foodData["snacks"]) = 1
  /\ view.log.meals["lunch"] = <<>>

\* C20: between two operations on the day, the totals stored in its
\* daily_logs row are the sums over its current food_entries rows, also
\* after updateFoodEntry and deleteFoodEntry.
C20_StoredTotalsMatchEntries == ~Running => db.totals = SumMacros(db.entries)

\* What does hold: in the build that uses withTransactionAsync the totals
\* are the sums over the entries as long as no single entry was deleted or
\* updated.
TotalsMatchWithoutEdits ==
  (impl = "transaction" /\ ~Running /\ numEdits = 0) => db.totals = SumMacros(db.entries)

\* ---------------------------------------------- Spec: HomeScreen attempts

MaxAttempts == 2     \* most extraction requests in one run

\* What parseFoodInput resolves with in this specification.
EggsAndToast == [EmptyResult EXCEPT !["breakfast"] = <<Egg, Toast>>]
ToastSnack == [EmptyResult EXCEPT !["snacks"] = <<Toast>>]
ExtractResults == {EmptyResult, EggsAndToast, ToastSnack}

\* InputBar: isBusy
isBusy == isProcessing \/ isTextProcessing \/ isSavingFood

\* voiceError || textError, the error prop of StatusIndicator
shownError == IF llmError # NoError THEN llmError ELSE textError

\* useAppData: loading, true while the loadData of a refresh runs; HomeScreen
\* then renders the spinner in place of the status indicator and the input bar.
loading == \E s \in saves : s.phase = "refresh"

\* StatusIndicator: showCancel
showCancel ==
  /\ isProcessing \/ isTextProcessing
  /\ ~isRecording
  /\ ~isSavingFood
  /\ shownError = NoError

Init ==
  /\ impl = "transaction"
  /\ \E r0 \in {EmptyResult, EggsAndToast} : db = ReplaceAll(EmptyDB, r0)
  /\ rp = [pc |-> "idle", foodData |-> EmptyResult, plan |-> <<>>, snap |-> EmptyDB, again |-> TRUE]
  /\ numCalls = 0
  /\ view = NoView
  /\ prev = NoPrev
  /\ dailyLog = DailyLogOf(db)
  /\ InitUI
  /\ NoCache
  /\ NoGen
  /\ NoMut
  /\ NoBg
  /\ NoEdit
  /\ NoRest

\* The save effect of one path runs because its parsed food changed: the
\* cleanup of the previous run (cancelled = true, clearTimeout,
\* setIsSavingFood(false)), then, for a non-null food, a new run up to its
\* first await (setTimeout, setIsSavingFood(true), the replace call issued).
\* Gives the new value of saves; RunEffectSaving gives that of isSavingFood.
CleanedUp(path) ==
  {s \in saves : s.path # path \/ s.cancelled}
    \cup {[s EXCEPT !.cancelled = TRUE, !.timer = FALSE] :
            s \in {t \in saves : t.path = path /\ ~t.cancelled /\ t.phase # "ended"}}

HasCleanup(path) == \E s \in saves : s.path = path /\ ~s.cancelled

RunEffect(path, food) ==
  IF food = NoFood THEN CleanedUp(path)
  ELSE CleanedUp(path) \cup
         {[id |-> food.id, path |-> path, res |-> food.res, log |-> dailyLog,
           phase |-> "replace", cancelled |-> FALSE, timer |-> TRUE]}

RunEffectSaving(path, food) ==
  IF food # NoFood THEN TRUE
  ELSE IF HasCleanup(path) THEN FALSE
  ELSE isSavingFood

\* handleMicPress while not recording: setTextInput(''), startRecording().
\* The mic button is rendered when the bar is not busy and no text is typed.
StartRecording ==
  /\ ~loading /\ ~isBusy /\ ~isRecording /\ textInput = ""
  /\ isRecording' = TRUE
  /\ textInput' = ""
  /\ UNCHANGED <<isProcessing, parsedFood, llmError, cancelledRef, isTextProcessing,
                 textParsedFood, textError, textCancelledRef, isSavingFood, dailyLog,
                 calls, saves, nextAttempt, cancelledAttempts, storeVars, cacheVars, otherVars>>

\* handleMicPress while recording: stopRecordingAndParse up to its
\* parseFoodInput call. An empty final transcript returns at once.
StopRecordingAndParse(finalTranscript) ==
  /\ ~loading /\ ~isBusy /\ isRecording
  /\ isRecording' = FALSE
  /\ IF finalTranscript = ""
     THEN UNCHANGED <<cancelledRef, isProcessing, llmError, calls, nextAttempt>>
     ELSE /\ nextAttempt <= MaxAttempts
          /\ cancelledRef' = FALSE
          /\ isProcessing' = TRUE
          /\ llmError' = NoError
          /\ calls' = calls \cup {[id |-> nextAttempt, path |-> "voice"]}
          /\ nextAttempt' = nextAttempt + 1
  /\ UNCHANGED <<parsedFood, textInput, isTextProcessing, textParsedFood, textError,
                 textCancelledRef, isSavingFood, dailyLog, saves, cancelledAttempts, storeVars, cacheVars, otherVars>>

\* onChangeText of the TextInput, rendered when the bar is neither busy nor recording.
ChangeText(text) ==
  /\ ~loading /\ ~isBusy /\ ~isRecording
  /\ text # textInput
  /\ textInput' = text
  /\ UNCHANGED <<isRecording, isProcessing, parsedFood, llmError, cancelledRef,
                 isTextProcessing, textParsedFood, textError, textCancelledRef, isSavingFood,
                 dailyLog, calls, saves, nextAttempt, cancelledAttempts, storeVars, cacheVars, otherVars>>

\* handleTextSubmit up to its parseFoodInput call; the send button and the
\* submit key are live when there is text and the bar is not busy.
HandleTextSubmit ==
  /\ ~loading /\ ~isBusy /\ ~isRecording
  /\ textInput # ""
  /\ nextAttempt <= MaxAttempts
  /\ textCancelledRef' = FALSE
  /\ isTextProcessing' = TRUE
  /\ textError' = NoError
  /\ calls' = calls \cup {[id |-> nextAttempt, path |-> "text"]}
  /\ nextAttempt' = nextAttempt + 1
  /\ UNCHANGED <<isRecording, isProcessing, parsedFood, llmError, cancelledRef, textInput,
                 textParsedFood, isSavingFood, dailyLog, saves, cancelledAttempts, storeVars, cacheVars, otherVars>>

\* parseFoodInput resolves with res: the rest of stopRecordingAndParse or of
\* handleTextSubmit, and the save effect that the new parsed food triggers.
ExtractSucceeds(c, res) ==
  /\ c \in calls
  /\ calls' = calls \ {c}
  /\ IF c.path = "voice"
     THEN /\ IF ~cancelledRef
             THEN /\ parsedFood' = [id |-> c.id, res |-> res]
                  /\ isProcessing' = FALSE
                  /\ saves' = RunEffect("voice", [id |-> c.id, res |-> res])
                  /\ isSavingFood' = TRUE
             ELSE UNCHANGED <<parsedFood, isProcessing, saves, isSavingFood>>
          /\ UNCHANGED <<textParsedFood, textInput, isTextProcessing>>
     ELSE /\ IF ~textCancelledRef
             THEN /\ textParsedFood' = [id |-> c.id, res |-> res]
                  /\ textInput' = ""
                  /\ isTextProcessing' = FALSE
                  /\ saves' = RunEffect("text", [id |-> c.id, res |-> res])
                  /\ isSavingFood' = TRUE
             ELSE UNCHANGED <<textParsedFood, textInput, isTextProcessing, saves, isSavingFood>>
          /\ UNCHANGED <<parsedFood, isProcessing>>
  /\ UNCHANGED <<isRecording, llmError, cancelledRef, textError, textCancelledRef, dailyLog,
                 nextAttempt, cancelledAttempts, storeVars, cacheVars, otherVars>>

\* The message of the catch block of stopRecordingAndParse and of handleTextSubmit.
errorMessage(backgrounded) == IF backgrounded THEN "backgrounded" ELSE "parse"

\* parseFoodInput rejects: the catch and finally blocks.
ExtractFails(c) ==
  /\ c \in calls
  /\ calls' = calls \ {c}
  /\ IF c.path = "voice"
     THEN /\ IF ~cancelledRef
             THEN /\ llmError' = [id |-> c.id,
                                  msg |-> errorMessage(wasBackgroundedDuringProcessing)]
                  /\ wasBackgroundedDuringProcessing' = FALSE
                  /\ isProcessing' = FALSE
             ELSE UNCHANGED <<llmError, wasBackgroundedDuringProcessing, isProcessing>>
          /\ UNCHANGED <<textError, textWasBackgroundedDuringProcessing, isTextProcessing>>
     ELSE /\ IF ~textCancelledRef
             THEN /\ textError' = [id |-> c.id,
                                   msg |-> errorMessage(textWasBackgroundedDuringProcessing)]
                  /\ textWasBackgroundedDuringProcessing' = FALSE
                  /\ isTextProcessing' = FALSE
             ELSE UNCHANGED <<textError, textWasBackgroundedDuringProcessing, isTextProcessing>>
          /\ UNCHANGED <<llmError, wasBackgroundedDuringProcessing, isProcessing>>
  /\ UNCHANGED <<isRecording, parsedFood, cancelledRef, textInput, textParsedFood,
                 textCancelledRef, isSavingFood, dailyLog, saves, nextAttempt,
                 cancelledAttempts, backgroundedAttempts, storeVars, cacheVars, genVars, mutVars, editVars, restVars>>

\* The listeners of AppState 'change' in useVoiceFoodLogger and in HomeScreen
\* run for the state 'background'.
AppBackgrounded ==
  /\ wasBackgroundedDuringProcessing' = (wasBackgroundedDuringProcessing \/ isProcessing)
  /\ textWasBackgroundedDuringProcessing' = (textWasBackgroundedDuringProcessing \/ isTextProcessing)
  /\ backgroundedAttempts' = backgroundedAttempts \cup {c.id : c \in calls}
  /\ UNCHANGED <<uiVars, storeVars, cacheVars, genVars, mutVars, editVars, restVars>>

HandleCancelAnalysis_keepsProcessing ==
  /\ ~loading /\ showCancel
  /\ ~(isRecording \/ isSavingFood)
  /\ IF isProcessing
     THEN /\ cancelledRef' = TRUE
          /\ llmError' = NoError
          /\ parsedFood' = NoFood
     ELSE UNCHANGED <<cancelledRef, llmError, parsedFood>>
  /\ IF isTextProcessing
     THEN /\ textCancelledRef' = TRUE
          /\ textError' = NoError
     ELSE UNCHANGED <<textCancelledRef, textError>>
  /\ saves' = IF isProcessing THEN RunEffect("voice", NoFood) ELSE saves
  /\ isSavingFood' = IF isProcessing THEN RunEffectSaving("voice", NoFood) ELSE isSavingFood
  /\ cancelledAttempts' = cancelledAttempts \cup
        {c.id : c \in {k \in calls : \/ k.path = "voice" /\ isProcessing
                                     \/ k.path = "text" /\ isTextProcessing}}
  /\ UNCHANGED <<isRecording, isProcessing, isTextProcessing, textInput, textParsedFood,
                 dailyLog, calls, nextAttempt, storeVars, cacheVars, otherVars>>

\* handleCancelAnalysis, from the cancel button of the status indicator;
\* cancelProcessing for the voice path.
HandleCancelAnalysis ==
  /\ ~loading /\ showCancel
  /\ ~(isRecording \/ isSavingFood)
  /\ IF isProcessing
     THEN /\ cancelledRef' = TRUE
          /\ isProcessing' = FALSE
          /\ llmError' = NoError
          /\ parsedFood' = NoFood
     ELSE UNCHANGED <<cancelledRef, isProcessing, llmError, parsedFood>>
  /\ IF isTextProcessing
     THEN /\ textCancelledRef' = TRUE
          /\ isTextProcessing' = FALSE
          /\ textError' = NoError
     ELSE UNCHANGED <<textCancelledRef, isTextProcessing, textError>>
  /\ saves' = IF isProcessing THEN RunEffect("voice", NoFood) ELSE saves
  /\ isSavingFood' = IF isProcessing THEN RunEffectSaving("voice", NoFood) ELSE isSavingFood
  /\ cancelledAttempts' = cancelledAttempts \cup
        {c.id : c \in {k \in calls : \/ k.path = "voice" /\ isProcessing
                                     \/ k.path = "text" /\ isTextProcessing}}
  /\ UNCHANGED <<isRecording, textInput, textParsedFood, dailyLog, calls, nextAttempt, storeVars, cacheVars, otherVars>>

\* handleDismissError, from the dismiss button of the error banner: reset()
\* and setTextError(null).
HandleDismissError ==
  /\ ~loading /\ shownError # NoError
  /\ parsedFood' = NoFood
  /\ llmError' = NoError
  /\ textError' = NoError
  /\ saves' = RunEffect("voice", NoFood)
  /\ isSavingFood' = RunEffectSaving("voice", NoFood)
  /\ UNCHANGED <<isRecording, isProcessing, cancelledRef, textInput, isTextProcessing,
                 textParsedFood, textCancelledRef, dailyLog, calls, nextAttempt,
                 cancelledAttempts, storeVars, cacheVars, otherVars>>

\* The replaceDailyFoodEntries call of a save effect resolves; the effect
\* goes on to refresh() unless its cleanup has run.
SaveSucceeds(s) ==
  /\ s \in saves /\ s.phase = "replace"
  /\ db' = ReplaceAll(db, s.res)
  /\ saves' = IF s.cancelled THEN saves \ {s}
              ELSE (saves \ {s}) \cup {[s EXCEPT !.phase = "refresh"]}
  /\ UNCHANGED <<impl, rp, numCalls, view, prev, cacheVars, otherVars>>
  /\ UNCHANGED <<isRecording, isProcessing, parsedFood, llmError, cancelledRef, textInput,
                 isTextProcessing, textParsedFood, textError, textCancelledRef, isSavingFood,
                 dailyLog, calls, nextAttempt, cancelledAttempts>>

\* The replaceDailyFoodEntries call of a save effect rejects (the transaction
\* is rolled back): the catch block of the effect.
SaveFails(s) ==
  /\ s \in saves /\ s.phase = "replace"
  /\ isSavingFood' = FALSE
  /\ textError' = IF s.path = "text" THEN [id |-> s.id, msg |-> "save"] ELSE textError
  /\ saves' = IF s.cancelled THEN saves \ {s}
              ELSE (saves \ {s}) \cup {[s EXCEPT !.phase = "ended"]}
  /\ UNCHANGED <<isRecording, isProcessing, parsedFood, llmError, cancelledRef, textInput,
                 isTextProcessing, textParsedFood, textCancelledRef, dailyLog, calls,
                 nextAttempt, cancelledAttempts, storeVars, cacheVars, otherVars>>

RefreshDone_early(s, loaded) ==
  /\ s \in saves /\ s.phase \in {"replace", "refresh"}
  /\ dailyLog' = IF loaded THEN DailyLogOf(db) ELSE dailyLog
  /\ db' = IF loaded THEN WriteBackTotals(db) ELSE db
  /\ saves' = saves \ {s}
  /\ IF s.cancelled
     THEN UNCHANGED <<isSavingFood, parsedFood, llmError, textParsedFood>>
     ELSE /\ isSavingFood' = FALSE
          /\ IF s.path = "voice"
             THEN parsedFood' = NoFood /\ llmError' = NoError /\ UNCHANGED textParsedFood
             ELSE textParsedFood' = NoFood /\ UNCHANGED <<parsedFood, llmError>>
  /\ UNCHANGED <<impl, rp, numCalls, view, prev, cacheVars, otherVars>>
  /\ UNCHANGED <<isRecording, isProcessing, cancelledRef, textInput, isTextProcessing,
                 textError, textCancelledRef, calls, nextAttempt, cancelledAttempts>>

\* refresh() of a save effect returns (loadData never rejects; when its
\* getOrCreateDailyLog failed the displayed log stays): the rest of the effect,
\* setIsSavingFood(false) and reset() or setTextParsedFood(null), and the
\* cleanup that the null parsed food triggers.
RefreshDone(s, loaded) ==
  /\ s \in saves /\ s.phase = "refresh"
  /\ dailyLog' = IF loaded THEN DailyLogOf(db) ELSE dailyLog
  /\ db' = IF loaded THEN WriteBackTotals(db) ELSE db
  /\ saves' = saves \ {s}
  /\ IF s.cancelled
     THEN UNCHANGED <<isSavingFood, parsedFood, llmError, textParsedFood>>
     ELSE /\ isSavingFood' = FALSE
          /\ IF s.path = "voice"
             THEN parsedFood' = NoFood /\ llmError' = NoError /\ UNCHANGED textParsedFood
             ELSE textParsedFood' = NoFood /\ UNCHANGED <<parsedFood, llmError>>
  /\ UNCHANGED <<impl, rp, numCalls, view, prev, cacheVars, otherVars>>
  /\ UNCHANGED <<isRecording, isProcessing, cancelledRef, textInput, isTextProcessing,
                 textError, textCancelledRef, calls, nextAttempt, cancelledAttempts>>

Watchdog_keepsSaving(s) ==
  /\ s \in saves /\ s.timer
  /\ saves' = (saves \ {s}) \cup {[s EXCEPT !.timer = FALSE]}
  /\ UNCHANGED <<isRecording, isProcessing, parsedFood, llmError, cancelledRef, textInput,
                 isTextProcessing, textParsedFood, textError, textCancelledRef, dailyLog,
                 calls, nextAttempt, cancelledAttempts, storeVars, cacheVars, otherVars, isSavingFood>>

\* failSafeTimeout of a save effect fires, 10 s after the effect ran.
Watchdog(s) ==
  /\ s \in saves /\ s.timer
  /\ isSavingFood' = FALSE
  /\ saves' = (saves \ {s}) \cup {[s EXCEPT !.timer = FALSE]}
  /\ UNCHANGED <<isRecording, isProcessing, parsedFood, llmError, cancelledRef, textInput,
                 isTextProcessing, textParsedFood, textError, textCancelledRef, dailyLog,
                 calls, nextAttempt, cancelledAttempts, storeVars, cacheVars, otherVars>>

Next ==
  \/ StartRecording
  \/ \E finalTranscript \in {"", "two eggs"} : StopRecordingAndParse(finalTranscript)
  \/ \E text \in {"", "toast"} : ChangeText(text)
  \/ HandleTextSubmit
  \/ \E c \in calls, res \in ExtractResults : ExtractSucceeds(c, res)
  \/ \E c \in calls : ExtractFails(c)
  \/ HandleCancelAnalysis
  \/ HandleDismissError
  \/ \E s \in saves : SaveSucceeds(s)
  \/ \E s \in saves : SaveFails(s)
  \/ \E s \in saves, loaded \in BOOLEAN : RefreshDone(s, loaded)
  \/ \E s \in saves : Watchdog(s)
  \/ AppBackgrounded

Spec == Init /\ [][Next]_vars

\* A parseFoodInput call in flight returns or fails.
ExtractionReturns ==
  \E c \in calls : ExtractFails(c) \/ \E res \in ExtractResults : ExtractSucceeds(c, res)

\* A replaceDailyFoodEntries call or a refresh() of a save effect returns or
\* fails.
PersistenceReturns ==
  \E s \in saves : SaveSucceeds(s) \/ SaveFails(s) \/ \E loaded \in BOOLEAN : RefreshDone(s, loaded)

\* Spec with every extraction call and every persistence call returning in
\* the end; the user and the fail-safe timer act or not.
SpecLive == Spec /\ WF_vars(ExtractionReturns) /\ WF_vars(PersistenceReturns)

\* ---------------------------------------------------------- Spec: claims
\* C1: the result of an extraction that was cancelled while in flight is
\* dropped: it is never held as parsedFood or textParsedFood and never
\* passed to replaceDailyFoodEntries, whatever the user does afterwards.
C1_CancelledResultDropped ==
  /\ parsedFood.id \notin cancelledAttempts
  /\ textParsedFood.id \notin cancelledAttempts
  /\ \A s \in saves : s.id \notin cancelledAttempts

\* C2: at most one logging attempt is extracting or saving at any time, so
\* that two parseFoodInput calls or two replaceDailyFoodEntries calls are
\* never in flight together.
C2_OneAttemptAtATime ==
  /\ Cardinality({c.id : c \in {k \in calls : k.id \notin cancelledAttempts}}
                 \cup {s.id : s \in {t \in saves : t.phase \in {"replace", "refresh"}}}) <= 1
  /\ Cardinality(calls) <= 1
  /\ Cardinality({s \in saves : s.phase = "replace"}) <= 1

\* C8 as claimed: saving a result whose four meal arrays are empty leaves
\* the day's stored entries and totals as they were.
C8_EmptyResultPreserves ==
  [][\A s \in saves :
       (SaveSucceeds(s) /\ s.res = EmptyResult) =>
         (db'.entries = db.entries /\ db'.totals = db.totals)]_vars

\* C8, amended: a result whose four meal arrays are empty is accepted
\* without error and saved like any other: the save leaves the day without
\* entries and with zero totals.
C8_EmptyResultReplaces ==
  [][/\ \A c \in calls :
          ExtractSucceeds(c, EmptyResult) =>
            /\ llmError' = llmError /\ textError' = textError
            /\ (c.path = "voice" /\ ~cancelledRef) => parsedFood' = [id |-> c.id, res |-> EmptyResult]
            /\ (c.path = "text" /\ ~textCancelledRef) => textParsedFood' = [id |-> c.id, res |-> EmptyResult]
     /\ \A s \in saves :
          (SaveSucceeds(s) /\ s.res = EmptyResult) =>
            (db'.entries = <<>> /\ db'.totals = ZeroTotals)]_vars

C8_Witness ==
  \E s \in saves :
    /\ s.phase = "refresh" /\ s.res = EmptyResult
    /\ s.log.totals # ZeroTotals
    /\ db.entries = <<>> /\ db.totals = ZeroTotals
    /\ shownError = NoError

\* C9: whenever replaceDailyFoodEntries fails in the save of a voice or of a
\* text attempt, the error given to the status indicator is non-null.
C9_FailedSaveSurfaced ==
  [][\A s \in saves : SaveFails(s) => shownError' # NoError]_vars

\* The text path alone.
TextFailedSaveSurfaced ==
  [][\A s \in saves : (SaveFails(s) /\ s.path = "text") => shownError' # NoError]_vars

\* C10: the failure of an extraction that was cancelled while in flight
\* surfaces no error: neither llmError nor textError ever holds its message.
C10_CancelledFailureSilent ==
  /\ ~(llmError.msg \in {"parse", "backgrounded"} /\ llmError.id \in cancelledAttempts)
  /\ ~(textError.msg \in {"parse", "backgrounded"} /\ textError.id \in cancelledAttempts)

\* C17: cancelling never touches a save that has begun: a save effect whose
\* replaceDailyFoodEntries call or refresh is in flight is left as it is by
\* handleCancelAnalysis, so that its write is followed by its refresh.
C17_CancelLeavesSaveAlone ==
  [][HandleCancelAnalysis =>
       \A s \in saves : (s.phase \in {"replace", "refresh"} /\ ~s.cancelled) => s \in saves']_vars

\* C27: handleDismissError discards no work in progress: a save effect that
\* is writing or refreshing stays as it is, so that its write is applied and
\* followed by the refresh; the extractions in flight stay as they are and
\* are not marked cancelled; the typed text stays.
C27_DismissKeepsWork ==
  [][HandleDismissError =>
       /\ \A s \in saves : (s.phase \in {"replace", "refresh"} /\ ~s.cancelled) => s \in saves'
       /\ calls' = calls
       /\ cancelledAttempts' = cancelledAttempts
       /\ textInput' = textInput]_vars

\* C18: while isSavingFood is true the failSafeTimeout of a save effect is
\* pending, so that the flag is false 10 s after the save began at the
\* latest; when the timeout fires the flag is false and the write of that
\* save stays in flight, the stored day untouched; and the flag turns true
\* again only when a new save starts.
C18_WatchdogClearsSaving ==
  [][/\ isSavingFood' => \E s \in saves' : s.timer
     /\ \A s \in saves :
          Watchdog(s) =>
            /\ ~isSavingFood'
            /\ db' = db
            /\ \E t \in saves' : t.id = s.id /\ t.phase = s.phase /\ t.cancelled = s.cancelled
     /\ (~isSavingFood /\ isSavingFood') =>
          \E t \in saves' : t.phase = "replace" /\ t.timer /\ t \notin saves]_vars

C18_Witness ==
  /\ ~isSavingFood
  /\ \E s \in saves : s.phase = "replace" /\ ~s.timer /\ ~s.cancelled

\* C19: when an extraction that was in flight while the app went to the
\* background fails, and was not cancelled, the error given to the status
\* indicator is the backgrounding message.
C19_BackgroundedFailureExplained ==
  [][\A c \in calls :
       (ExtractFails(c) /\ c.id \in backgroundedAttempts /\ c.id \notin cancelledAttempts)
         => shownError'.msg = "backgrounded"]_vars

\* ------------------------------------------------- SpecCache: useAppData
\* In this specification a DailyLog is its date, and carries history marks:
\* stale, an invalidateCache of its date ran after it was read from storage;
\* outdated, a write to the stored day of its date completed after it was
\* read from storage; old (on the log on display), the read that returned it
\* was called before the latest invalidateCache of its date.
PREFETCH_DAYS == 7

Dates == 1..NumDays

\* getLocalDateString()
today == NumDays

NoLog == [date |-> 0, stale |-> FALSE, outdated |-> FALSE]

\* setDailyLog(log) by a read that carries the mark old
Served(log, old) == [date |-> log.date, stale |-> log.stale, old |-> old]

\* The getOrCreateDailyLog calls prefetchSurroundingDays(centerDate) issues
\* with the cache as given: the dates of the trailing window that are not
\* in the future and not cached.
prefetchSurroundingDays(cache, centerDate) ==
  {[date |-> d, pc |-> "fetch", log |-> NoLog] :
     d \in {e \in Dates : /\ e >= centerDate - PREFETCH_DAYS /\ e <= centerDate
                         /\ e <= today
                         /\ cache[e] = NoLog}}

\* Mount: the effect that calls loadData() has run; mockDailyLog is on display.
InitCache ==
  /\ InitUI
  /\ NoGen
  /\ NoMut
  /\ NoBg
  /\ NoEdit
  /\ NoRest
  /\ impl = "transaction"
  /\ db = EmptyDB
  /\ rp = [pc |-> "idle", foodData |-> EmptyResult, plan |-> <<>>, snap |-> EmptyDB, again |-> TRUE]
  /\ numCalls = 0
  /\ view = NoView
  /\ prev = NoPrev
  /\ selectedDate = today
  /\ logCache = [d \in Dates |-> NoLog]
  /\ loads = {[date |-> today, pc |-> "start", log |-> NoLog, old |-> FALSE]}
  /\ fetches = {}
  /\ dailyLog = Served(NoLog, FALSE)

\* The marks after invalidateCache(date); date 0 stands for no argument.
MarkLoads(date) ==
  {IF date = 0 \/ l.date = date
   THEN [l EXCEPT !.old = TRUE, !.log = [@ EXCEPT !.stale = (l.pc \in {"read", "directRead"})]]
   ELSE l : l \in loads}

MarkFetches(date) ==
  {IF date = 0 \/ f.date = date
   THEN [f EXCEPT !.log = [@ EXCEPT !.stale = (f.pc = "read")]]
   ELSE f : f \in fetches}

\* logCache.current.delete(date), or clear() without a date
Deleted(date) == [d \in Dates |-> IF date = 0 \/ d = date THEN NoLog ELSE logCache[d]]

\* invalidateCache(date)
InvalidateCache(date) ==
  /\ logCache' = Deleted(date)
  /\ loads' = MarkLoads(date)
  /\ fetches' = MarkFetches(date)
  /\ UNCHANGED <<selectedDate, dailyLog, attemptVars, storeVars, otherVars>>

\* refresh(): invalidateCache(selectedDate), then loadData(selectedDate) up
\* to its first await.
Refresh ==
  /\ Cardinality(loads) < MaxLoads
  /\ logCache' = Deleted(selectedDate)
  /\ loads' = MarkLoads(selectedDate)
                \cup {[date |-> selectedDate, pc |-> "start", log |-> NoLog, old |-> FALSE]}
  /\ fetches' = MarkFetches(selectedDate)
  /\ UNCHANGED <<selectedDate, dailyLog, attemptVars, storeVars, otherVars>>

\* changeDate(newDate): the cached log at once, or loadData(newDate).
ChangeDate(newDate) ==
  /\ Cardinality(loads) < MaxLoads
  /\ selectedDate' = newDate
  /\ IF logCache[newDate] # NoLog
     THEN /\ dailyLog' = Served(logCache[newDate], FALSE)
          /\ fetches' = fetches \cup prefetchSurroundingDays(logCache, newDate)
          /\ UNCHANGED loads
     ELSE /\ loads' = loads \cup {[date |-> newDate, pc |-> "start", log |-> NoLog, old |-> FALSE]}
          /\ UNCHANGED <<dailyLog, fetches>>
  /\ UNCHANGED <<logCache, attemptVars, storeVars, otherVars>>

\* loadData after its awaits of initDatabase, user and targets: the cache
\* check; on a hit the rest of loadData.
LoadCacheCheck(l) ==
  /\ l \in loads /\ l.pc = "start"
  /\ IF logCache[l.date] # NoLog
     THEN /\ dailyLog' = Served(logCache[l.date], l.old)
          /\ fetches' = fetches \cup prefetchSurroundingDays(logCache, l.date)
          /\ loads' = loads \ {l}
     ELSE /\ loads' = (loads \ {l}) \cup {[l EXCEPT !.pc = "fetch"]}
          /\ UNCHANGED <<dailyLog, fetches>>
  /\ UNCHANGED <<selectedDate, logCache, attemptVars, storeVars, otherVars>>

\* The getOrCreateDailyLog of a loadData reads the stored day.
LoadDbRead(l) ==
  /\ l \in loads /\ l.pc = "fetch"
  /\ loads' = (loads \ {l}) \cup
       {[l EXCEPT !.pc = "read", !.log = [date |-> l.date, stale |-> FALSE, outdated |-> FALSE]]}
  /\ UNCHANGED <<selectedDate, logCache, fetches, dailyLog, attemptVars, storeVars, otherVars>>

\* The getOrCreateDailyLog of a loadData resolves: logCache.set,
\* setDailyLog, prefetchSurroundingDays.
LoadResolve(l) ==
  /\ l \in loads /\ l.pc = "read"
  /\ logCache' = [logCache EXCEPT ![l.date] = l.log]
  /\ dailyLog' = Served(l.log, l.old)
  /\ fetches' = fetches \cup prefetchSurroundingDays(logCache', l.date)
  /\ loads' = loads \ {l}
  /\ UNCHANGED <<selectedDate, attemptVars, storeVars, otherVars>>

\* An await of loadData rejects: the catch block (setError).
LoadFails(l) ==
  /\ l \in loads
  /\ loads' = loads \ {l}
  /\ UNCHANGED <<selectedDate, logCache, fetches, dailyLog, attemptVars, storeVars, otherVars>>

\* The getOrCreateDailyLog of a prefetch reads the stored day.
PrefetchDbRead(f) ==
  /\ f \in fetches /\ f.pc = "fetch"
  /\ fetches' = (fetches \ {f}) \cup
       {[f EXCEPT !.pc = "read", !.log = [date |-> f.date, stale |-> FALSE, outdated |-> FALSE]]}
  /\ UNCHANGED <<selectedDate, logCache, loads, dailyLog, attemptVars, storeVars, otherVars>>

\* The getOrCreateDailyLog of a prefetch resolves: logCache.set(date, log).
PrefetchResolve(f) ==
  /\ f \in fetches /\ f.pc = "read"
  /\ logCache' = [logCache EXCEPT ![f.date] = f.log]
  /\ fetches' = fetches \ {f}
  /\ UNCHANGED <<selectedDate, loads, dailyLog, attemptVars, storeVars, otherVars>>

\* The getOrCreateDailyLog of a prefetch rejects: the failure is logged.
PrefetchFails(f) ==
  /\ f \in fetches
  /\ fetches' = fetches \ {f}
  /\ UNCHANGED <<selectedDate, logCache, loads, dailyLog, attemptVars, storeVars, otherVars>>

\* The marks after a write to the stored day of a date has completed.
Outdate(log, date) == IF log.date = date THEN [log EXCEPT !.outdated = TRUE] ELSE log

OutdatedCache(cache, date) == [d \in Dates |-> Outdate(cache[d], date)]

OutdatedReads(reads, date) == {[r EXCEPT !.log = Outdate(@, date)] : r \in reads}

\* The save effect of HomeScreen runs for a new parsed food, up to its await
\* of replaceDailyFoodEntries(dailyLog.dailyLogID): the effect holds the
\* dailyLog and the refresh of the render it belongs to.
SaveEffectRuns ==
  /\ dailyLog.date # 0
  /\ numWrites < MaxWrites
  /\ numWrites' = numWrites + 1
  /\ mutations' = mutations \cup
       {[kind |-> "save", date |-> dailyLog.date, refreshDate |-> selectedDate]}
  /\ UNCHANGED <<cacheVars, dailyLog, attemptVars, storeVars, genVars, bgVars, editVars, restVars>>

\* handleSaveEdit or handleDeleteConfirm on an entry of the log on display,
\* up to the await of updateFoodEntry or deleteFoodEntry.
HandleSaveEdit ==
  /\ dailyLog.date # 0
  /\ numWrites < MaxWrites
  /\ numWrites' = numWrites + 1
  /\ mutations' = mutations \cup
       {[kind |-> "edit", date |-> dailyLog.date, refreshDate |-> selectedDate]}
  /\ UNCHANGED <<cacheVars, dailyLog, attemptVars, storeVars, genVars, bgVars, editVars, restVars>>

\* The write of a save or of an edit has completed, and the handler goes on:
\* refresh(), which is invalidateCache and loadData for the selectedDate the
\* handler holds.
MutationWritten(m) ==
  /\ m \in mutations /\ m.kind \in {"save", "edit"}
  /\ mutations' = mutations \ {m}
  /\ logCache' = OutdatedCache(Deleted(m.refreshDate), m.date)
  /\ loads' = OutdatedReads(MarkLoads(m.refreshDate), m.date)
                \cup {[date |-> m.refreshDate, pc |-> "start", log |-> NoLog, old |-> FALSE]}
  /\ fetches' = OutdatedReads(MarkFetches(m.refreshDate), m.date)
  /\ UNCHANGED <<selectedDate, numWrites, dailyLog, attemptVars, storeVars, genVars, bgVars, editVars, restVars>>

\* The write of the save effect has completed after the effect was cleaned up
\* (parsedFood changed while the write was in flight): the effect returns
\* at its cancelled test, before refresh().
SaveWrittenCancelled(m) ==
  /\ m \in mutations /\ m.kind = "save"
  /\ mutations' = mutations \ {m}
  /\ logCache' = OutdatedCache(logCache, m.date)
  /\ loads' = OutdatedReads(loads, m.date)
  /\ fetches' = OutdatedReads(fetches, m.date)
  /\ UNCHANGED <<selectedDate, numWrites, dailyLog, attemptVars, storeVars, genVars, bgVars, editVars, restVars>>

\* The write of a handler rejects: its catch block, without refresh.
MutationFails(m) ==
  /\ m \in mutations
  /\ mutations' = mutations \ {m}
  /\ UNCHANGED <<cacheVars, numWrites, dailyLog, attemptVars, storeVars, genVars, bgVars, editVars, restVars>>

\* updateTargetsHandler up to its await of updateMacroTargets, which also
\* rewrites the targets of today's stored day.
UpdateTargets ==
  /\ numWrites < MaxWrites
  /\ numWrites' = numWrites + 1
  /\ mutations' = mutations \cup {[kind |-> "targets", date |-> today, refreshDate |-> selectedDate]}
  /\ UNCHANGED <<cacheVars, dailyLog, attemptVars, storeVars, genVars, bgVars, editVars, restVars>>

\* updateMacroTargets has completed: invalidateCache(today), and, when the
\* selectedDate the handler holds is today, getOrCreateDailyLog is called.
TargetsWritten(m) ==
  /\ m \in mutations /\ m.kind = "targets"
  /\ mutations' = mutations \ {m}
  /\ logCache' = OutdatedCache(Deleted(today), today)
  /\ loads' = OutdatedReads(MarkLoads(today), today)
                \cup (IF m.refreshDate = today
                      THEN {[date |-> today, pc |-> "directFetch", log |-> NoLog, old |-> FALSE]}
                      ELSE {})
  /\ fetches' = OutdatedReads(MarkFetches(today), today)
  /\ UNCHANGED <<selectedDate, numWrites, dailyLog, attemptVars, storeVars, genVars, bgVars, editVars, restVars>>

\* The getOrCreateDailyLog of updateTargetsHandler reads the stored day.
TargetsDbRead(l) ==
  /\ l \in loads /\ l.pc = "directFetch"
  /\ loads' = (loads \ {l}) \cup
       {[l EXCEPT !.pc = "directRead",
                  !.log = [date |-> l.date, stale |-> FALSE, outdated |-> FALSE]]}
  /\ UNCHANGED <<selectedDate, logCache, fetches, dailyLog, attemptVars, storeVars, otherVars>>

\* The getOrCreateDailyLog of updateTargetsHandler resolves: logCache.set,
\* setDailyLog.
TargetsResolve(l) ==
  /\ l \in loads /\ l.pc = "directRead"
  /\ logCache' = [logCache EXCEPT ![l.date] = l.log]
  /\ dailyLog' = Served(l.log, l.old)
  /\ loads' = loads \ {l}
  /\ UNCHANGED <<selectedDate, fetches, attemptVars, storeVars, otherVars>>

NextCache ==
  \/ \E date \in Dates \cup {0} : InvalidateCache(date)
  \/ Refresh
  \/ \E newDate \in Dates : ChangeDate(newDate)
  \/ \E l \in loads : LoadCacheCheck(l)
  \/ \E l \in loads : LoadDbRead(l)
  \/ \E l \in loads : LoadResolve(l)
  \/ \E l \in loads : LoadFails(l)
  \/ \E f \in fetches : PrefetchDbRead(f)
  \/ \E f \in fetches : PrefetchResolve(f)
  \/ \E f \in fetches : PrefetchFails(f)
  \/ SaveEffectRuns
  \/ HandleSaveEdit
  \/ \E m \in mutations : MutationWritten(m)
  \/ \E m \in mutations : SaveWrittenCancelled(m)
  \/ \E m \in mutations : MutationFails(m)
  \/ UpdateTargets
  \/ \E m \in mutations : TargetsWritten(m)
  \/ \E l \in loads : TargetsDbRead(l)
  \/ \E l \in loads : TargetsResolve(l)

SpecCache == InitCache /\ [][NextCache]_vars

\* ----------------------------------------------------- SpecCache: claims
\* C3: a read of a date through the cache that is called after
\* invalidateCache(date) never returns a DailyLog that was read from storage
\* before that invalidation.
C3_NoStaleReadAfterInvalidate == ~(dailyLog.stale /\ ~dailyLog.old)

\* C16: after a write to a stored day (a save, an edit or a deletion of an
\* entry, new targets), a read through the cache (changeDate, loadData) never
\* returns a cached DailyLog of that day that was read before the write.
C16_ReadAfterMutationFresh ==
  [][/\ \A newDate \in Dates :
          (ChangeDate(newDate) /\ logCache[newDate] # NoLog) => ~logCache[newDate].outdated
     /\ \A l \in loads :
          (LoadCacheCheck(l) /\ logCache[l.date] # NoLog) => ~logCache[l.date].outdated]_vars

\* ------------------------------------------------ SpecGen: parseFoodInput
\* One extraction request: parseFoodInput, the geminiProvider.generate it
\* awaits, and the calls of ai.models.generateContent that generate makes.
\* An error message is the sequence of its fragments.

\* Variant: one more retry.
MAX_RETRIES_plusOne == 3 + 1

MAX_RETRIES == 3

INITIAL_RETRY_DELAY_MS == 2000

\* The generate of src/services/gemini.ts with its retry loop, and the one of
\* src/unnamed/part_012 that makes a single call.
GenImpls == {"retry", "single"}

\* message.includes(fragment)
includes(message, fragment) == \E i \in 1..Len(message) : message[i] = fragment

\* String.prototype.toLowerCase on the fragments that have capitals.
LowerCase(fragment) ==
  CASE fragment = "Timeout" -> "timeout"
    [] fragment = "Network request failed" -> "network request failed"
    [] fragment = "ECONNRESET" -> "econnreset"
    [] fragment = "API key" -> "api key"
    [] OTHER -> fragment

toLowerCase(message) == [i \in 1..Len(message) |-> LowerCase(message[i])]

isRetryableError(message) ==
  LET errorMsg == toLowerCase(message) IN
    \/ includes(errorMsg, "timeout")
    \/ includes(errorMsg, "timed out")
    \/ includes(errorMsg, "network request failed")
    \/ includes(errorMsg, "econnreset")
    \/ includes(errorMsg, "enotfound")
    \/ includes(errorMsg, "econnrefused")

\* What one generateContent call can end with, other than a response that
\* parses as JSON: the request times out, the network fails, the connection
\* is reset, the key is refused, the response is blocked, the response text
\* is not JSON (the message quotes the first 100 characters of the text).
ServiceFailures == {"timeout", "network", "reset", "auth", "safety", "badjson", "badjsonEcho"}

ServiceError(kind) ==
  [kind |-> kind,
   message |->
     CASE kind = "timeout" -> <<"Request ", "timed out">>
       [] kind = "network" -> <<"Network request failed">>
       [] kind = "reset" -> <<"read ", "ECONNRESET">>
       [] kind = "auth" -> <<"API key", " not valid. Please pass a valid API key.">>
       [] kind = "safety" -> <<"SAFETY", ": Response blocked by Gemini safety filters">>
       [] kind = "badjson" -> <<"JSON Parse error: ", "Unexpected end of input", " | preview=", "{\"breakfast\": [{\"name\": \"Egg">>
       [] kind = "badjsonEcho" -> <<"JSON Parse error: ", "Unexpected end of input", " | preview=", "{\"breakfast\": [{\"name\": \"", "Timeout", " bar">>]

\* The failures the retry policy calls transient.
Transient(kind) == kind \in {"timeout", "network", "reset"}

\* A property that is absent from a parsed response.
undefined == "<undefined>"

MathRound_down(n, d) == n \div d

\* Math.round(n / d) for integers n and d > 0: halves go up.
MathRound(n, d) == (2 * n + d) \div (2 * d)

\* An item as the service sends it: z.number() takes any number, so the four
\* macros are counted in halves (7 is 3.5, -10 is -5).
Received(item) ==
  [item EXCEPT !.calories = 2 * @, !.protein = 2 * @, !.carbs = 2 * @, !.fat = 2 * @]

\* Parsed responses: without items, with two named items, with an item whose
\* name is the empty string next to a named one, with an item without name,
\* with an item without quantity, with 2.5 g of protein, with negative numbers.
RawEggsAndToast == [EmptyResult EXCEPT !["breakfast"] = <<Received(Egg), Received(Toast)>>]
RawEmptyName ==
  [EmptyResult EXCEPT !["breakfast"] = <<Received(Toast), [Received(Egg) EXCEPT !.name = ""]>>]
RawNoName == [EmptyResult EXCEPT !["lunch"] = <<[Received(Egg) EXCEPT !.name = undefined]>>]
RawNoQuantity == [EmptyResult EXCEPT !["dinner"] = <<[Received(Toast) EXCEPT !.quantity = ""]>>]
RawHalves == [EmptyResult EXCEPT !["dinner"] = <<[Received(Toast) EXCEPT !.protein = 5]>>]
RawNegative ==
  [EmptyResult EXCEPT !["snacks"] = <<[Received(Egg) EXCEPT !.calories = -10, !.fat = -3]>>]
RawResponses ==
  {EmptyResult, RawEggsAndToast, RawEmptyName, RawNoName, RawNoQuantity, RawHalves, RawNegative}

\* LLMResponseSchema.parse succeeds: every name is a string.
schemaParses(response) ==
  \A m \in MealSet : \A i \in 1..Len(response[m]) : response[m][i].name # undefined

\* Variant: an empty name is accepted.
validName_acceptsEmpty(item) == item.name # undefined

\* validateFoodItem does not throw: !item.name is false and the name is a string.
validName(item) == item.name # "" /\ item.name # undefined

\* validateFoodItem on an item it accepts: Math.round(Number(x) || 0) of each
\* macro, '1 serving' for a missing quantity.
validateFoodItem(item) ==
  [name |-> item.name,
   quantity |-> IF item.quantity = "" THEN "1 serving" ELSE item.quantity,
   calories |-> MathRound(item.calories, 2),
   protein |-> MathRound(item.protein, 2),
   carbs |-> MathRound(item.carbs, 2),
   fat |-> MathRound(item.fat, 2)]

validateThrows(response) ==
  \E m \in MealSet : \E i \in 1..Len(response[m]) : ~validName(response[m][i])

validateAndNormalizeLLMResponse(response) ==
  [m \in MealSet |-> [i \in 1..Len(response[m]) |-> validateFoodItem(response[m][i])]]

\* Variant: the delay does not grow.
delayMs_constant(attempt) == INITIAL_RETRY_DELAY_MS

\* const delayMs = INITIAL_RETRY_DELAY_MS * Math.pow(2, attempt)
delayMs(attempt) == INITIAL_RETRY_DELAY_MS * 2^attempt

\* gemini.ts after the loop: the error generate throws for lastError.
AfterLoop(message) ==
  IF \/ includes(message, "api key")
     \/ includes(toLowerCase(message), "unauthorized")
     \/ includes(message, "403")
  THEN <<"Invalid API key: Please verify your GEMINI_API_KEY is valid.">>
  ELSE <<"Gemini API error: ">> \o message

\* part_012: the error the catch block of generate throws.
CatchSingle(message) ==
  LET errorMsg == toLowerCase(message) IN
    IF includes(errorMsg, "timeout") \/ includes(errorMsg, "timed out") THEN <<"TIMEOUT_ERROR">>
    ELSE IF includes(errorMsg, "network request failed") THEN <<"TIMEOUT_ERROR">>
    ELSE IF \/ includes(errorMsg, "api key") \/ includes(errorMsg, "unauthorized")
            \/ includes(errorMsg, "403")
         THEN <<"Invalid API key: Please verify your GEMINI_API_KEY is valid.">>
    ELSE <<"Gemini API error: ">> \o message

\* The catch block of generate for the error e of the attempt in progress.
Caught(g, e) ==
  LET g1 == [g EXCEPT !.errors = Append(@, e)] IN
    IF genImpl = "single"
    THEN [g1 EXCEPT !.pc = "thrown", !.error = CatchSingle(e.message)]
    ELSE IF g.attempt < MAX_RETRIES /\ isRetryableError(e.message)
         THEN [g1 EXCEPT !.sleeps = Append(@, delayMs(g.attempt)),
                         !.attempt = @ + 1,
                         !.pc = "loop"]
         ELSE [g1 EXCEPT !.pc = "thrown", !.error = AfterLoop(e.message)]

TimeoutAdvice ==
  <<"Request took too long to process. Try breaking up your description into smaller parts and logging them separately.">>

outsideGen == <<storeVars, uiVars, cacheVars, mutVars, bgVars, editVars, restVars>>

NoStore ==
  /\ impl = "transaction"
  /\ db = EmptyDB
  /\ rp = [pc |-> "idle", foodData |-> EmptyResult, plan |-> <<>>, snap |-> EmptyDB, again |-> TRUE]
  /\ numCalls = 0
  /\ view = [pc |-> "none", log |-> DailyLogOf(EmptyDB)]
  /\ prev = [pc |-> "none", foodData |-> EmptyResult, log |-> DailyLogOf(EmptyDB)]
  /\ dailyLog = DailyLogOf(EmptyDB)

InitGen ==
  /\ InitUI
  /\ NoStore
  /\ NoCache
  /\ NoMut
  /\ NoBg
  /\ NoEdit
  /\ NoRest
  /\ GEMINI_API_KEY \in {"", "key"}
  /\ genImpl \in GenImpls
  /\ gen = IdleGen
  /\ pfi = IdlePfi
  /\ numRequests = 0

\* parseFoodInput is called, up to the first await of generate: the check
\* of the API key, let lastError = null.
ParseFoodInput ==
  /\ pfi.pc \in {"idle", "returned", "thrown"}
  /\ numRequests < MaxRequests
  /\ numRequests' = numRequests + 1
  /\ pfi' = [IdlePfi EXCEPT !.pc = "awaiting"]
  /\ gen' = IF GEMINI_API_KEY = ""
            THEN [IdleGen EXCEPT !.pc = "thrown",
                                 !.error = <<"GEMINI_API_KEY is not configured. Please check your .env file and restart Expo.">>]
            ELSE [IdleGen EXCEPT !.pc = "loop"]
  /\ UNCHANGED <<GEMINI_API_KEY, genImpl, outsideGen>>

\* The head of the retry loop (the try block of part_012): the next
\* generateContent call is made, or the loop is left with lastError.
GenerateContent ==
  /\ gen.pc = "loop"
  /\ gen' = IF genImpl = "single" \/ gen.attempt <= MAX_RETRIES
            THEN [gen EXCEPT !.pc = "await", !.calls = @ + 1]
            ELSE [gen EXCEPT !.pc = "thrown", !.error = AfterLoop(gen.errors[Len(gen.errors)].message)]
  /\ UNCHANGED <<GEMINI_API_KEY, genImpl, pfi, numRequests, outsideGen>>

\* The generateContent call rejects, or its response is blocked or is not JSON.
CallFails(kind) ==
  /\ gen.pc = "await"
  /\ gen' = Caught(gen, ServiceError(kind))
  /\ UNCHANGED <<GEMINI_API_KEY, genImpl, pfi, numRequests, outsideGen>>

\* The generateContent call returns text that parses as JSON: the schema is
\* applied, and generate returns the parsed response or catches the ZodError.
CallReturns(response) ==
  /\ gen.pc = "await"
  /\ gen' = IF schemaParses(response)
            THEN [gen EXCEPT !.pc = "returned", !.response = response]
            ELSE Caught([gen EXCEPT !.response = response],
                        [kind |-> "schema", message |-> <<"[{\"code\": \"invalid_type\", \"message\": \"Required\"}]">>])
  /\ UNCHANGED <<GEMINI_API_KEY, genImpl, pfi, numRequests, outsideGen>>

\* generate has returned: parseFoodInput returns the normalized response, or
\* validateFoodItem throws and the catch block rethrows.
ParseResolves ==
  /\ pfi.pc = "awaiting"
  /\ gen.pc = "returned"
  /\ pfi' = IF validateThrows(gen.response)
            THEN [pfi EXCEPT !.pc = "thrown",
                             !.error = <<"Failed to parse food input: ", "Food item must have a name">>]
            ELSE [pfi EXCEPT !.pc = "returned",
                             !.result = validateAndNormalizeLLMResponse(gen.response)]
  /\ UNCHANGED <<GEMINI_API_KEY, genImpl, gen, numRequests, outsideGen>>

\* generate has thrown: the catch block of parseFoodInput.
ParseCatches ==
  /\ pfi.pc = "awaiting"
  /\ gen.pc = "thrown"
  /\ pfi' = [pfi EXCEPT !.pc = "thrown",
                        !.error = IF gen.error = <<"TIMEOUT_ERROR">>
                                  THEN TimeoutAdvice
                                  ELSE <<"Failed to parse food input: ">> \o gen.error]
  /\ UNCHANGED <<GEMINI_API_KEY, genImpl, gen, numRequests, outsideGen>>

NextGen ==
  \/ ParseFoodInput
  \/ GenerateContent
  \/ \E kind \in ServiceFailures : CallFails(kind)
  \/ \E response \in RawResponses : CallReturns(response)
  \/ ParseResolves
  \/ ParseCatches

SpecGen == InitGen /\ [][NextGen]_vars

\* ------------------------------------------------------- SpecGen: claims
RECURSIVE SumSeq(_)
SumSeq(seq) == IF seq = <<>> THEN 0 ELSE Head(seq) + SumSeq(Tail(seq))

\* C11 as claimed: for one request, generate calls the service at most 3
\* times.
C11_AtMostThreeCalls == gen.calls <= 3

\* C11, amended: for one request, generate calls the service at most 4
\* times, the first call and three retries, however many transient failures
\* occur.
C11_AtMostFourCalls == gen.calls <= 4

C11_Witness ==
  /\ genImpl = "retry" /\ gen.pc = "thrown" /\ gen.calls = 4
  /\ \A i \in 1..4 : Transient(gen.errors[i].kind)

\* C12: only transient failures are retried: every failure that generate
\* slept and retried after is a timeout, a network failure or a connection
\* reset, and a request whose first failure is not transient ends after one
\* call and no sleep.
C12_OnlyTransientRetried ==
  /\ \A i \in 1..Len(gen.sleeps) : Transient(gen.errors[i].kind)
  /\ (gen.errors # <<>> /\ ~Transient(gen.errors[1].kind)) =>
       (gen.pc = "thrown" /\ gen.calls = 1 /\ gen.sleeps = <<>>)

\* The same without the failure whose message quotes response text.
RetriedByMessage ==
  (\A i \in 1..Len(gen.errors) : gen.errors[i].kind # "badjsonEcho") => C12_OnlyTransientRetried

\* C13: the sleeps of one request are 2s, 4s, 8s in this order, and a request
\* that fails transiently on its first two calls and succeeds on the third
\* returns (generate and parseFoodInput) after sleeps of 2s and 4s, 6s in all.
C13_BackoffDoubles ==
  /\ \A i \in 1..Len(gen.sleeps) : gen.sleeps[i] = 1000 * 2^i
  /\ (gen.pc = "returned" /\ Len(gen.errors) = 2) =>
       /\ gen.calls = 3
       /\ gen.sleeps = <<2000, 4000>>
       /\ SumSeq(gen.sleeps) = 6000
  /\ (pfi.pc \in {"returned", "thrown"} /\ gen.pc = "returned" /\ Len(gen.errors) = 2
        /\ ~validateThrows(gen.response)) => pfi.pc = "returned"

C13_Witness ==
  /\ pfi.pc = "returned" /\ gen.pc = "returned" /\ Len(gen.errors) = 2
  /\ gen.errors[1].kind = "timeout" /\ gen.errors[2].kind = "network"
  /\ pfi.result = EggsAndToast
  /\ SumSeq(gen.sleeps) = 6000

\* C14: when every call of a request timed out and generate gave up, the
\* error parseFoodInput throws is the advice to split the input.
C14_TimeoutAdviceSurfaced ==
  (/\ pfi.pc = "thrown"
   /\ gen.errors # <<>>
   /\ \A i \in 1..Len(gen.errors) : gen.errors[i].kind = "timeout") => pfi.error = TimeoutAdvice

\* The same for the generate that makes a single call.
SingleCallTimeoutAdvice == genImpl = "single" => C14_TimeoutAdviceSurfaced

\* C15: when an item of the service response has no name (absent or empty),
\* parseFoodInput throws and returns no result.
C15_NamelessItemRejectsAll ==
  (/\ pfi.pc \in {"returned", "thrown"}
   /\ gen.calls > 0
   /\ \E m \in MealSet : \E i \in 1..Len(gen.response[m]) :
        gen.response[m][i].name \in {"", undefined}) =>
    /\ pfi.pc = "thrown"
    /\ pfi.result = IdlePfi.result

C15_Witness ==
  /\ pfi.pc = "thrown"
  /\ gen.pc = "returned"
  /\ gen.response = RawEmptyName
  /\ pfi.error = <<"Failed to parse food input: ", "Food item must have a name">>


\* C31: every item parseFoodInput returns has calories, protein, carbs and
\* fat that are non-negative, each the integer nearest to the number received.
C31_MacrosNonNegativeIntegers ==
  (pfi.pc = "returned") =>
    \A m \in MealSet : \A i \in 1..Len(pfi.result[m]) :
      \A f \in {"calories", "protein", "carbs", "fat"} :
        /\ pfi.result[m][i][f] >= 0
        /\ 2 * pfi.result[m][i][f] - gen.response[m][i][f] \in {-1, 0, 1}

\* -------------------------------------------- SpecTargets: per-day targets
\* The target columns of daily_logs and the macro_targets row, under
\* updateMacroTargets, getOrCreateDailyLog and the passing of days.
Days == 1..MaxDay

\* What the user sets in this specification.
CutTargets == [calories |-> 2000, protein |-> 150, carbs |-> 200, fat |-> 60]
TargetValues == {defaultTargets, CutTargets}

outsideTargets == <<storeVars, uiVars, cacheVars, genVars, mutVars, bgVars, editVars, captureVars,
                    solverVars, dateVars, prefetchVars, dayVars>>

InitTargets ==
  /\ InitUI
  /\ NoStore
  /\ NoCache
  /\ NoGen
  /\ NoMut
  /\ NoBg
  /\ NoEdit
  /\ NoTargets
  /\ NoCapture
  /\ NoSolver
  /\ NoDates
  /\ NoPrefetch
  /\ NoDayView

\* Midnight passes.
Tick ==
  /\ clock < MaxDay
  /\ clock' = clock + 1
  /\ UNCHANGED <<macroTargets, logTargets, umt, numUpdates, outsideTargets>>

\* getOrCreateMacroTargets: the row, created with the defaults when missing.
TargetsRow(rows) == IF rows = {} THEN defaultTargets ELSE CHOOSE t \in rows : TRUE

\* getOrCreateDailyLog(userID, date), its daily_logs part: a missing row is
\* inserted with the current macro targets, an existing one is read.
GetOrCreateLogRow(date) ==
  /\ date <= clock
  /\ date \notin DOMAIN logTargets
  /\ macroTargets' = {TargetsRow(macroTargets)}
  /\ logTargets' = [d \in DOMAIN logTargets \cup {date} |->
                      IF d = date THEN TargetsRow(macroTargets) ELSE logTargets[d]]
  /\ UNCHANGED <<clock, umt, numUpdates, outsideTargets>>

\* updateMacroTargets(targets) is called: getTodayDate(), the SELECT.
UpdateMacroTargetsCall(targets) ==
  /\ umt.pc = "idle"
  /\ numUpdates < MaxUpdates
  /\ numUpdates' = numUpdates + 1
  /\ umt' = [pc |-> "targets", today |-> clock, targets |-> targets]
  /\ UNCHANGED <<clock, macroTargets, logTargets, outsideTargets>>

\* UPDATE macro_targets SET ... WHERE userID = ?
UpdateTargetsRow ==
  /\ umt.pc = "targets"
  /\ macroTargets' = {umt.targets : t \in macroTargets}
  /\ umt' = [umt EXCEPT !.pc = "logs"]
  /\ UNCHANGED <<clock, logTargets, numUpdates, outsideTargets>>

\* Variant: the UPDATE of daily_logs has no date in its WHERE clause.
UpdateTodayLog_everyDay ==
  /\ umt.pc = "logs"
  /\ logTargets' = [d \in DOMAIN logTargets |-> umt.targets]
  /\ umt' = [umt EXCEPT !.pc = "idle"]
  /\ UNCHANGED <<clock, macroTargets, numUpdates, outsideTargets>>

\* UPDATE daily_logs SET target... WHERE userID = ? AND date = today
UpdateTodayLog ==
  /\ umt.pc = "logs"
  /\ logTargets' = [d \in DOMAIN logTargets |->
                      IF d = umt.today THEN umt.targets ELSE logTargets[d]]
  /\ umt' = [umt EXCEPT !.pc = "idle"]
  /\ UNCHANGED <<clock, macroTargets, numUpdates, outsideTargets>>

\* A statement of updateMacroTargets throws; the statements before it stay.
UpdateMacroTargetsFails ==
  /\ umt.pc \in {"targets", "logs"}
  /\ umt' = [umt EXCEPT !.pc = "idle"]
  /\ UNCHANGED <<clock, macroTargets, logTargets, numUpdates, outsideTargets>>

NextTargets ==
  \/ Tick
  \/ \E date \in Days : GetOrCreateLogRow(date)
  \/ \E targets \in TargetValues : UpdateMacroTargetsCall(targets)
  \/ UpdateTargetsRow
  \/ UpdateTodayLog
  \/ UpdateMacroTargetsFails

SpecTargets == InitTargets /\ [][NextTargets]_vars

\* ---------------------------------------------------- SpecTargets: claims
\* C21: the targets of an existing DailyLog change only in the
\* updateMacroTargets call, and only for the log of the local day in which
\* the call was made; the logs of all other days keep their targets.
C21_OtherDaysKeepTargets ==
  [][\A d \in DOMAIN logTargets :
       /\ d \in DOMAIN logTargets'
       /\ logTargets'[d] # logTargets[d] => (umt.pc = "logs" /\ d = umt.today)]_vars

C21_Witness ==
  /\ umt.pc = "idle" /\ numUpdates > 0
  /\ \E d \in DOMAIN logTargets :
       /\ d < clock
       /\ clock \in DOMAIN logTargets
       /\ logTargets[d] = defaultTargets
       /\ logTargets[clock] = CutTargets
       /\ macroTargets = {CutTargets}
\* ------------------------------------------------ SpecVoice: useVoiceInput
\* useVoiceInput and the stopRecordingAndParse of useVoiceFoodLogger up to its
\* parseFoodInput call, driven by handleMicPress, by cancelRecording and by
\* the events of the Voice module. The Voice module is the environment: a
\* started session reports onSpeechStart, then partial results; once stopped
\* it reports its final result and onSpeechEnd, in either order; it may
\* report an error at any time.
Partial(session) == [session |-> session, text |-> "two"]
Final(session) == [session |-> session, text |-> "two eggs"]

\* The SpeechErrorEvent values of the model: code and message, a message
\* being the sequence of its fragments.
SpeechErrors ==
  { [code |-> "recognition_fail", message |-> <<"203/Retry">>],
    [code |-> "7", message |-> <<"7/", "No speech detected">>],
    [code |-> "2", message |-> <<"2/Network error">>],
    [code |-> "5", message |-> <<>>] }

isNoSpeech_codeOnly(e) == e.code = "recognition_fail"

\* onSpeechError: the test for a silent reset
isNoSpeech(e) == e.code = "recognition_fail" \/ includes(e.message, "No speech detected")

\* onSpeechError: errorMessage || 'Speech recognition error'
surfaced(e) == IF e.message = <<>> THEN <<"Speech recognition error">> ELSE e.message

\* attemptVars without isRecording
otherAttemptVars == <<isProcessing, parsedFood, llmError, cancelledRef, textInput,
                      isTextProcessing, textParsedFood, textError, textCancelledRef, isSavingFood,
                      calls, saves, nextAttempt, cancelledAttempts>>

outsideCapture == <<storeVars, otherAttemptVars, dailyLog, cacheVars, genVars, mutVars, bgVars,
                    editVars, targetVars, solverVars, dateVars, prefetchVars, dayVars>>

InitVoice ==
  /\ InitUI
  /\ NoStore
  /\ NoCache
  /\ NoGen
  /\ NoMut
  /\ NoBg
  /\ NoEdit
  /\ NoTargets
  /\ NoCapture
  /\ NoSolver
  /\ NoDates
  /\ NoPrefetch
  /\ NoDayView

\* stopResolverRef.current(transcriptRef.current); stopResolverRef.current = null
Resolved(calls_, id, text) ==
  {IF c.id = id THEN [c EXCEPT !.resolved = TRUE, !.result = text] ELSE c : c \in calls_}

\* startRecording: setError(null), setTranscript(''), transcriptRef.current = '',
\* await Voice.start; ok is whether Voice.start resolves. A started session
\* takes the place of the one before it.
StartRecordingCall(ok) ==
  /\ numSessions < MaxSessions
  /\ numSessions' = numSessions + 1
  /\ transcript' = NoText
  /\ transcriptRef' = NoText
  /\ IF ok
     THEN /\ error' = <<>>
          /\ voice' = [session |-> numSessions + 1, phase |-> "starting",
                       endSent |-> FALSE, finalSent |-> FALSE]
          /\ UNCHANGED <<isRecording, outcomes>>
     ELSE /\ error' = <<"Failed to start recording">>
          /\ isRecording' = FALSE
          /\ outcomes' = outcomes \cup {[session |-> numSessions + 1, kind |-> "error"]}
          /\ UNCHANGED voice
  /\ UNCHANGED <<stopResolverRef, timers, stops, handed, cancelledSessions, numStops,
                 numCancels, outsideCapture>>

\* stopRecordingAndParse up to the await of Voice.stop in stopRecording: the
\* promise is created, its resolver stored, the 500 ms timeout set.
StopRecordingCall ==
  /\ numStops < MaxStops
  /\ numStops' = numStops + 1
  /\ stopResolverRef' = numStops + 1
  /\ timers' = timers + 1
  /\ stops' = stops \cup {[id |-> numStops + 1, pc |-> "stop", resolved |-> FALSE,
                           result |-> NoText]}
  /\ voice' = IF voice.phase \in {"starting", "listening"}
              THEN [voice EXCEPT !.phase = "finishing"] ELSE voice
  /\ UNCHANGED <<isRecording, transcript, transcriptRef, error, handed, outcomes,
                 cancelledSessions, numSessions, numCancels, outsideCapture>>

\* handleMicPress
MicPress ==
  IF isRecording THEN StopRecordingCall ELSE \E ok \in BOOLEAN : StartRecordingCall(ok)

\* onSpeechStart
SpeechStart ==
  /\ voice.phase = "starting"
  /\ voice' = [voice EXCEPT !.phase = "listening"]
  /\ isRecording' = TRUE
  /\ error' = <<>>
  /\ UNCHANGED <<transcript, transcriptRef, stopResolverRef, timers, stops, handed, outcomes,
                 cancelledSessions, numSessions, numStops, numCancels, outsideCapture>>

\* onSpeechResults with a partial result of the session
SpeechPartialResults ==
  /\ voice.phase = "listening"
  /\ transcriptRef # Partial(voice.session)
  /\ transcriptRef' = Partial(voice.session)
  /\ transcript' = Partial(voice.session)
  /\ UNCHANGED <<isRecording, error, stopResolverRef, timers, voice, stops, handed, outcomes,
                 cancelledSessions, numSessions, numStops, numCancels, outsideCapture>>

\* The phase of a stopped session after one more of its two closing events.
Closing(v) == IF v.endSent /\ v.finalSent THEN [v EXCEPT !.phase = "off"] ELSE v

\* onSpeechResults with the final result of the stopped session
SpeechFinalResults ==
  /\ voice.phase = "finishing" /\ ~voice.finalSent
  /\ transcriptRef' = Final(voice.session)
  /\ transcript' = Final(voice.session)
  /\ voice' = Closing([voice EXCEPT !.finalSent = TRUE])
  /\ UNCHANGED <<isRecording, error, stopResolverRef, timers, stops, handed, outcomes,
                 cancelledSessions, numSessions, numStops, numCancels, outsideCapture>>

\* onSpeechEnd
SpeechEnd ==
  /\ voice.phase = "finishing" /\ ~voice.endSent
  /\ voice' = Closing([voice EXCEPT !.endSent = TRUE])
  /\ isRecording' = FALSE
  /\ stops' = Resolved(stops, stopResolverRef, transcriptRef)
  /\ stopResolverRef' = 0
  /\ UNCHANGED <<transcript, transcriptRef, error, timers, handed, outcomes, cancelledSessions,
                 numSessions, numStops, numCancels, outsideCapture>>

\* onSpeechError; the session is over, and a silent reset cancels it.
SpeechError(e) ==
  /\ voice.phase \in {"starting", "listening", "finishing"}
  /\ voice' = [voice EXCEPT !.phase = "off"]
  /\ isRecording' = FALSE
  /\ stops' = Resolved(stops, stopResolverRef, transcriptRef)
  /\ stopResolverRef' = 0
  /\ error' = IF isNoSpeech(e) THEN <<>> ELSE surfaced(e)
  /\ outcomes' = outcomes \cup
       {[session |-> voice.session, kind |-> IF isNoSpeech(e) THEN "reset" ELSE "error"]}
  /\ UNCHANGED <<transcript, transcriptRef, timers, handed, cancelledSessions, numSessions,
                 numStops, numCancels, outsideCapture>>

\* The timeout of a stopRecording fires.
StopTimeout ==
  /\ timers > 0
  /\ timers' = timers - 1
  /\ stops' = Resolved(stops, stopResolverRef, transcriptRef)
  /\ stopResolverRef' = 0
  /\ UNCHANGED <<isRecording, transcript, transcriptRef, error, voice, handed, outcomes,
                 cancelledSessions, numSessions, numStops, numCancels, outsideCapture>>

\* Voice.stop resolves: stopRecording awaits its promise.
VoiceStopResolves(c) ==
  /\ c \in stops /\ c.pc = "stop"
  /\ stops' = (stops \ {c}) \cup {[c EXCEPT !.pc = "wait"]}
  /\ UNCHANGED <<isRecording, transcript, transcriptRef, error, stopResolverRef, timers, voice,
                 handed, outcomes, cancelledSessions, numSessions, numStops, numCancels,
                 outsideCapture>>

\* The rest of stopRecordingAndParse once stopRecording has returned text:
\* a silent return for no text, else the parseFoodInput call.
Handed(c, text) == IF text.text = "" THEN handed ELSE handed \cup {[call |-> c.id, text |-> text]}

Yielded(c, text) ==
  outcomes \cup {[session |-> IF text.text = "" THEN voice.session ELSE text.session,
                  kind |-> IF text.text = "" THEN "reset" ELSE "transcript"]}

\* The promise of stopRecording is resolved: it returns the transcript.
StopRecordingReturns(c) ==
  /\ c \in stops /\ c.pc = "wait" /\ c.resolved
  /\ stops' = stops \ {c}
  /\ handed' = Handed(c, c.result)
  /\ outcomes' = Yielded(c, c.result)
  /\ UNCHANGED <<isRecording, transcript, transcriptRef, error, stopResolverRef, timers, voice,
                 cancelledSessions, numSessions, numStops, numCancels, outsideCapture>>

\* Voice.stop rejects: the catch block of stopRecording returns
\* transcriptRef.current.
VoiceStopRejects(c) ==
  /\ c \in stops /\ c.pc = "stop"
  /\ stops' = stops \ {c}
  /\ error' = <<"Failed to stop recording">>
  /\ handed' = Handed(c, transcriptRef)
  /\ outcomes' = Yielded(c, transcriptRef) \cup {[session |-> voice.session, kind |-> "error"]}
  /\ UNCHANGED <<isRecording, transcript, transcriptRef, stopResolverRef, timers, voice,
                 cancelledSessions, numSessions, numStops, numCancels, outsideCapture>>

\* cancelRecording of useVoiceFoodLogger: voiceInput.cancelRecording() and
\* reset(); ok is whether Voice.cancel resolves.
CancelRecordingCall(ok) ==
  /\ numCancels < MaxCancels
  /\ numCancels' = numCancels + 1
  /\ cancelledSessions' = cancelledSessions \cup {voice.session}
  /\ outcomes' = outcomes \cup {[session |-> voice.session, kind |-> "reset"]}
  /\ transcript' = NoText
  /\ IF ok
     THEN /\ voice' = [voice EXCEPT !.phase = "off"]
          /\ error' = <<>>
     ELSE /\ error' = <<"Failed to cancel recording">>
          /\ UNCHANGED voice
  /\ UNCHANGED <<isRecording, transcriptRef, stopResolverRef, timers, stops, handed,
                 numSessions, numStops, outsideCapture>>

NextVoice ==
  \/ MicPress
  \/ SpeechStart
  \/ SpeechPartialResults
  \/ SpeechFinalResults
  \/ SpeechEnd
  \/ \E e \in SpeechErrors : SpeechError(e)
  \/ StopTimeout
  \/ \E c \in stops : VoiceStopResolves(c)
  \/ \E c \in stops : StopRecordingReturns(c)
  \/ \E c \in stops : VoiceStopRejects(c)
  \/ \E ok \in BOOLEAN : CancelRecordingCall(ok)

SpecVoice == InitVoice /\ [][NextVoice]_vars


\* --------------------------------------------- SpecSolver: useMacroCalculator
\* The four fields of the target editor under its setters and reset.
PROTEIN_CALS_PER_GRAM == 4
CARBS_CALS_PER_GRAM == 4
FAT_CALS_PER_GRAM == 9

\* What the user types into a field: nothing, a lone '.', a number.
Typed == {Blank, Dot, String(1001), String(1252)} \cup {String(50 * i) : i \in 0..MaxTyped}

\* parseValue, null read as the 0 it is in the arithmetic of
\* calculateMissingField
parseValue(value) == IF value.num THEN value.n ELSE 0

countSetFields(vals) == Cardinality({f \in MacroFields : vals[f].set})

\* getMissingField, "" for null
getMissingField(vals) ==
  IF ~vals.calories.set THEN "calories"
  ELSE IF ~vals.protein.set THEN "protein"
  ELSE IF ~vals.carbs.set THEN "carbs"
  ELSE IF ~vals.fat.set THEN "fat"
  ELSE ""

\* calculateMissingField: the switch on the missing field
calculatedValue(vals, missing) ==
  LET calories == parseValue(vals.calories)
      protein == parseValue(vals.protein)
      carbs == parseValue(vals.carbs)
      fat == parseValue(vals.fat)
  IN  CASE missing = "calories" ->
             MathRound(protein * PROTEIN_CALS_PER_GRAM + carbs * CARBS_CALS_PER_GRAM
                         + fat * FAT_CALS_PER_GRAM, 1)
        [] missing = "protein" ->
             MathRound(calories - carbs * CARBS_CALS_PER_GRAM - fat * FAT_CALS_PER_GRAM,
                       PROTEIN_CALS_PER_GRAM)
        [] missing = "carbs" ->
             MathRound(calories - protein * PROTEIN_CALS_PER_GRAM - fat * FAT_CALS_PER_GRAM,
                       CARBS_CALS_PER_GRAM)
        [] missing = "fat" ->
             MathRound(calories - protein * PROTEIN_CALS_PER_GRAM - carbs * CARBS_CALS_PER_GRAM,
                       FAT_CALS_PER_GRAM)

calculateMissingField(newValues) ==
  IF countSetFields(newValues) # 3 \/ getMissingField(newValues) = ""
  THEN [values |-> newValues, field |-> ""]
  ELSE LET missing == getMissingField(newValues)
       IN  [values |-> [newValues EXCEPT ![missing] = String(calculatedValue(newValues, missing))],
            field |-> missing]

outsideSolver == <<storeVars, uiVars, cacheVars, genVars, mutVars, bgVars, editVars, targetVars,
                   captureVars, dateVars, prefetchVars, dayVars>>

InitSolver ==
  /\ InitUI
  /\ NoStore
  /\ NoCache
  /\ NoGen
  /\ NoMut
  /\ NoBg
  /\ NoEdit
  /\ NoTargets
  /\ NoCapture
  /\ NoSolver
  /\ NoDates
  /\ NoPrefetch
  /\ NoDayView

\* setCalories: the other three fields are cleared.
SetCalories(value) ==
  /\ numKeys < MaxKeys
  /\ numKeys' = numKeys + 1
  /\ values' = [calories |-> value, protein |-> Blank, carbs |-> Blank, fat |-> Blank]
  /\ calculatedField' = ""
  /\ UNCHANGED outsideSolver

\* setProtein, setCarbs, setFat
SetMacro(field, value) ==
  /\ field \in MacroFields \ {"calories"}
  /\ numKeys < MaxKeys
  /\ numKeys' = numKeys + 1
  /\ IF calculatedField = field
     THEN /\ values' = [values EXCEPT ![field] = value]
          /\ calculatedField' = ""
     ELSE LET result == calculateMissingField([values EXCEPT ![field] = value])
          IN  /\ values' = result.values
              /\ calculatedField' = result.field
  /\ UNCHANGED outsideSolver

\* reset(targets), from handleEditMacros and handleCancelMacros
ResetCalculator(targets) ==
  /\ values' = FromTargets(targets)
  /\ calculatedField' = ""
  /\ UNCHANGED <<numKeys, outsideSolver>>

NextSolver ==
  \/ \E value \in Typed : SetCalories(value)
  \/ \E field \in MacroFields, value \in Typed : SetMacro(field, value)
  \/ \E targets \in TargetValues : ResetCalculator(targets)

SpecSolver == InitSolver /\ [][NextSolver]_vars


\* ------------------------------------------------------ SpecDates: day keys
\* The day keys of useAppData and of the storage layer as time passes on a
\* device in some timezone. A Date is its time value, in half hours since
\* 2023-01-01T00:00Z; a date string 'YYYY-MM-DD' is <<year, month, day>>.

\* The helpers of the repository: getLocalDateString and formatLocalDate read
\* the local year, month and day; the selectedDate of src/unnamed/part_009 and
\* the getTodayDate of src/services/storage.ts cut the date out of
\* toISOString().
DateImpls == {"local", "iso"}

\* UTC-8, UTC and UTC+5:30
Zones == {-16, 0, 11}

\* Where the clock of a run starts: the UTC midnight of New Year's Eve 2023,
\* of the 29th of February 2024 and of the 28th of February 2023.
Starts == {364 * 48, 424 * 48, 58 * 48}

IsLeap(year) == year % 4 = 0 /\ (year % 100 # 0 \/ year % 400 = 0)

\* Days of the month month0 (0 for January) of a year.
DaysInMonth(year, month0) ==
  IF month0 = 1 THEN (IF IsLeap(year) THEN 29 ELSE 28)
  ELSE IF month0 \in {3, 5, 8, 10} THEN 30 ELSE 31

RECURSIVE DaysBefore(_, _)
\* Days from 2023-01-01 to the first of a month.
DaysBefore(year, month0) ==
  IF year = 2023 /\ month0 = 0 THEN 0
  ELSE IF month0 = 0 THEN DaysBefore(year - 1, 11) + 31
  ELSE DaysBefore(year, month0 - 1) + DaysInMonth(year, month0 - 1)

\* MakeDay of Date: the day number of a year, month and day of the month, the
\* day of the month free to lie outside the month.
MakeDay(year, month0, date) == DaysBefore(year, month0) + date - 1

RECURSIVE FromDay(_, _, _)
\* The year, month0 and day of the month of day number day, counted from the
\* first of a month.
FromDay(year, month0, day) ==
  IF day < DaysInMonth(year, month0) THEN <<year, month0, day + 1>>
  ELSE IF month0 = 11 THEN FromDay(year + 1, 0, day - 31)
  ELSE FromDay(year, month0 + 1, day - DaysInMonth(year, month0))

\* The local fields of a Date: getFullYear, getMonth, getDate.
LocalFields(date) == FromDay(2023, 0, (date + tz) \div 48)
getFullYear(date) == LocalFields(date)[1]
getMonth(date) == LocalFields(date)[2]
getDate(date) == LocalFields(date)[3]

\* new Date(year, month0, day): local midnight
NewDate(year, month0, day) == MakeDay(year, month0, day) * 48 - tz

\* date.setDate(dayOfMonth): the local time of day is kept.
setDate(date, dayOfMonth) ==
  MakeDay(getFullYear(date), getMonth(date), dayOfMonth) * 48 + ((date + tz) % 48) - tz

\* getLocalDateString, formatLocalDate
getLocalDateString(date) == <<getFullYear(date), getMonth(date) + 1, getDate(date)>>

\* date.toISOString().split('T')[0]
isoDate(date) ==
  LET utc == FromDay(2023, 0, date \div 48) IN <<utc[1], utc[2] + 1, utc[3]>>

\* getTodayDate, and the initial selectedDay of useAppData
getTodayDate == IF dateImpl = "local" THEN getLocalDateString(now) ELSE isoDate(now)

getOffsetDateString(dateStr, offsetDays) ==
  LET date == NewDate(dateStr[1], dateStr[2] - 1, dateStr[3])
  IN  getLocalDateString(setDate(date, getDate(date) + offsetDays))

outsideDates == <<storeVars, uiVars, cacheVars, genVars, mutVars, bgVars, editVars, targetVars,
                  captureVars, solverVars, prefetchVars, dayVars>>

InitDates ==
  /\ InitUI
  /\ NoStore
  /\ NoCache
  /\ NoGen
  /\ NoMut
  /\ NoBg
  /\ NoEdit
  /\ NoTargets
  /\ NoCapture
  /\ NoSolver
  /\ NoPrefetch
  /\ NoDayView
  /\ dateImpl \in DateImpls
  /\ tz \in Zones
  /\ now \in Starts
  /\ selectedDay = getTodayDate
  /\ keyedAt = now
  /\ prefetched = [centre |-> selectedDay, keys |-> <<>>]

\* Half an hour passes.
HalfHour ==
  /\ \E start \in Starts : now >= start /\ now < start + MaxHalfHours
  /\ now' = now + 1
  /\ UNCHANGED <<dateImpl, tz, selectedDay, keyedAt, prefetched, outsideDates>>

\* The app is launched again: useState(getLocalDateString()).
Mount ==
  /\ selectedDay' = getTodayDate
  /\ keyedAt' = now
  /\ UNCHANGED <<dateImpl, tz, now, prefetched, outsideDates>>

\* prefetchSurroundingDays: the keys of the days up to selectedDay
PrefetchKeys ==
  /\ dateImpl = "local"
  /\ prefetched' = [centre |-> selectedDay,
                    keys |-> [i \in (-PREFETCH_DAYS)..0 |->
                                getOffsetDateString(selectedDay, i)]]
  /\ UNCHANGED <<dateImpl, tz, now, selectedDay, keyedAt, outsideDates>>

NextDates ==
  \/ HalfHour
  \/ Mount
  \/ PrefetchKeys

SpecDates == InitDates /\ [][NextDates]_vars


\* ------------------------------------------- SpecPrefetch: the prefetch window
\* The day keys prefetchSurroundingDays loads as the user moves between days,
\* in the build with the local day keys; the clock stands still.

\* date <= today on 'YYYY-MM-DD' strings: the comparison of the characters is
\* the comparison of year, then month, then day.
NotAfter(date, day) ==
  \/ date[1] < day[1]
  \/ date[1] = day[1] /\ date[2] < day[2]
  \/ date[1] = day[1] /\ date[2] = day[2] /\ date[3] <= day[3]

datesToFetch_futureToo(cache, centre) ==
  {getOffsetDateString(centre, i) : i \in (-PREFETCH_DAYS)..0} \ cache

\* prefetchSurroundingDays: datesToFetch
datesToFetch(cache, centre) ==
  {date \in {getOffsetDateString(centre, i) : i \in (-PREFETCH_DAYS)..0} :
     NotAfter(date, getLocalDateString(now)) /\ date \notin cache}

outsidePrefetch == <<storeVars, uiVars, cacheVars, genVars, mutVars, bgVars, editVars, targetVars,
                     captureVars, solverVars, dayVars>>

\* Mount on New Year's Eve 2023, UTC: loadData() for today is fetching.
InitPrefetch ==
  /\ InitUI
  /\ NoStore
  /\ NoCache
  /\ NoGen
  /\ NoMut
  /\ NoBg
  /\ NoEdit
  /\ NoTargets
  /\ NoCapture
  /\ NoSolver
  /\ NoDayView
  /\ dateImpl = "local"
  /\ tz = 0
  /\ now = 364 * 48
  /\ selectedDay = getTodayDate
  /\ keyedAt = now
  /\ prefetched = [centre |-> selectedDay, keys |-> <<>>]
  /\ centreDay = getTodayDate
  /\ cachedKeys = {}
  /\ pendingLoad = <<getTodayDate>>
  /\ issued = {}
  /\ inFlight = {}
  /\ numChanges = 0
  /\ numFailed = 0

\* changeDate(newDate), the new date n days from today: the cached log and
\* a prefetch, or loadData(newDate).
SelectDay(n) ==
  LET newDate == getOffsetDateString(getLocalDateString(now), n)
  IN  /\ pendingLoad = <<>>
      /\ numChanges < MaxChanges
      /\ numChanges' = numChanges + 1
      /\ centreDay' = newDate
      /\ IF newDate \in cachedKeys
         THEN /\ issued' = datesToFetch(cachedKeys, newDate)
              /\ inFlight' = inFlight \cup issued'
              /\ UNCHANGED pendingLoad
         ELSE /\ pendingLoad' = <<newDate>>
              /\ UNCHANGED <<issued, inFlight>>
      /\ UNCHANGED <<cachedKeys, numFailed, dateVars, outsidePrefetch>>

\* refresh(): invalidateCache(selectedDate), loadData(selectedDate)
RefreshDay ==
  /\ pendingLoad = <<>>
  /\ numChanges < MaxChanges
  /\ numChanges' = numChanges + 1
  /\ cachedKeys' = cachedKeys \ {centreDay}
  /\ pendingLoad' = <<centreDay>>
  /\ UNCHANGED <<centreDay, issued, inFlight, numFailed, dateVars, outsidePrefetch>>

\* loadData from its cache check on: getOrCreateDailyLog on a miss,
\* logCache.set, prefetchSurroundingDays(targetDate).
LoadDayResolves ==
  /\ pendingLoad # <<>>
  /\ pendingLoad' = <<>>
  /\ cachedKeys' = cachedKeys \cup {pendingLoad[1]}
  /\ issued' = datesToFetch(cachedKeys', pendingLoad[1])
  /\ inFlight' = inFlight \cup issued'
  /\ UNCHANGED <<centreDay, numChanges, numFailed, dateVars, outsidePrefetch>>

\* A getOrCreateDailyLog of a prefetch resolves: logCache.set(date, log).
FetchResolves(date) ==
  /\ date \in inFlight
  /\ inFlight' = inFlight \ {date}
  /\ cachedKeys' = cachedKeys \cup {date}
  /\ UNCHANGED <<centreDay, pendingLoad, issued, numChanges, numFailed, dateVars,
                 outsidePrefetch>>

\* A getOrCreateDailyLog of a prefetch rejects: the failure is logged.
FetchFails(date) ==
  /\ date \in inFlight
  /\ numFailed < MaxFailed
  /\ numFailed' = numFailed + 1
  /\ inFlight' = inFlight \ {date}
  /\ UNCHANGED <<centreDay, cachedKeys, pendingLoad, issued, numChanges, dateVars,
                 outsidePrefetch>>

NextPrefetch ==
  \/ \E n \in (-MaxAway)..MaxAway : SelectDay(n)
  \/ RefreshDay
  \/ LoadDayResolves
  \/ \E date \in inFlight : FetchResolves(date)
  \/ \E date \in inFlight : FetchFails(date)

SpecPrefetch == InitPrefetch /\ [][NextPrefetch]_vars

\* ------------------------------------------- SpecDays: the day on display
\* useAppData with its loading flag, and the day a logging attempt reads and
\* writes: the request carries the log on display as todayLog, the save
\* effect writes to the log on display when it runs and refreshes the
\* selected date of that render. TopBar and CalendarDropdown call changeDate
\* at any time.

outsideRows == <<storeVars, attemptVars, genVars, numWrites, bgVars, editVars, targetVars,
                 captureVars, solverVars, dateVars, prefetchVars>>

\* The daily_logs rows change only in the INSERT of getOrCreateDailyLog.
outsideDays == <<outsideRows, dailyLogRows, insertErrors>>

\* Mount: loading is true, the effect that calls loadData() has run. Each
\* date has its daily_logs row from an earlier run of the app, or none yet.
InitDays ==
  /\ InitUI
  /\ NoGen
  /\ NoMut
  /\ NoBg
  /\ NoEdit
  /\ NoTargets
  /\ NoCapture
  /\ NoSolver
  /\ NoDates
  /\ NoPrefetch
  /\ impl = "transaction"
  /\ db = EmptyDB
  /\ rp = [pc |-> "idle", foodData |-> EmptyResult, plan |-> <<>>, snap |-> EmptyDB, again |-> TRUE]
  /\ numCalls = 0
  /\ view = NoView
  /\ prev = NoPrev
  /\ selectedDate = today
  /\ logCache = [d \in Dates |-> NoLog]
  /\ loads = {[date |-> today, pc |-> "start", log |-> NoLog, old |-> FALSE]}
  /\ fetches = {}
  /\ dailyLog = Served(NoLog, FALSE)
  /\ appLoading = TRUE
  /\ loadError = FALSE
  /\ request = <<>>
  /\ written = {}
  /\ numDayOps = 0
  /\ dailyLogRows \in [Dates -> {0, 1}]
  /\ insertErrors = {}

\* The DailyLog getOrCreateDailyLog returns for a date.
StoredLog(date) == [date |-> date, stale |-> FALSE, outdated |-> FALSE]

\* loadData(date) up to its first await: setLoading(true), setError(null).
LoadDataCall(date) == {[date |-> date, pc |-> "start", log |-> NoLog, old |-> FALSE]}

\* changeDate(newDate): the cached log at once, or loadData(newDate).
DayChangeDate(newDate) ==
  /\ numDayOps < MaxDayOps
  /\ numDayOps' = numDayOps + 1
  /\ selectedDate' = newDate
  /\ IF logCache[newDate] # NoLog
     THEN /\ dailyLog' = Served(logCache[newDate], FALSE)
          /\ fetches' = fetches \cup prefetchSurroundingDays(logCache, newDate)
          /\ UNCHANGED <<loads, appLoading, loadError>>
     ELSE /\ loads' = loads \cup LoadDataCall(newDate)
          /\ appLoading' = TRUE
          /\ loadError' = FALSE
          /\ UNCHANGED <<dailyLog, fetches>>
  /\ UNCHANGED <<logCache, mutations, request, written, outsideDays>>

\* loadData after its awaits of initDatabase, user and targets: the cache
\* check; on a hit the rest of loadData with its finally block.
DayCacheCheck(l) ==
  /\ l \in loads /\ l.pc = "start"
  /\ IF logCache[l.date] # NoLog
     THEN /\ dailyLog' = Served(logCache[l.date], FALSE)
          /\ fetches' = fetches \cup prefetchSurroundingDays(logCache, l.date)
          /\ loads' = loads \ {l}
          /\ appLoading' = FALSE
     ELSE /\ loads' = (loads \ {l}) \cup {[l EXCEPT !.pc = "fetch"]}
          /\ UNCHANGED <<dailyLog, fetches, appLoading>>
  /\ UNCHANGED <<selectedDate, logCache, mutations, loadError, request, written, numDayOps,
                 outsideDays>>

\* pc of a getOrCreateDailyLog after its SELECT of the daily_logs row of the
\* date: on to the INSERT when there is none, else to the reads of the entries.
AfterSelect(date) == IF dailyLogRows[date] = 0 THEN "insert" ELSE "read"

\* CREATE UNIQUE INDEX idx_daily_logs_user_date ON daily_logs(userID, date):
\* an INSERT for a date that has a row is rejected.
UniqueIndexAllows(date) == dailyLogRows[date] = 0

\* The getOrCreateDailyLog of a loadData: SELECT * FROM daily_logs WHERE
\* userID = ? AND date = ?
DaySelectRow(l) ==
  /\ l \in loads /\ l.pc = "fetch"
  /\ loads' = (loads \ {l}) \cup {[l EXCEPT !.pc = AfterSelect(l.date)]}
  /\ UNCHANGED <<selectedDate, logCache, fetches, dailyLog, mutations, dayVars, outsideRows>>

\* The getOrCreateDailyLog of a loadData: INSERT INTO daily_logs; when it is
\* rejected the error reaches the catch and finally blocks of loadData.
DayInsertRow(l) ==
  /\ l \in loads /\ l.pc = "insert"
  /\ IF UniqueIndexAllows(l.date)
     THEN /\ dailyLogRows' = [dailyLogRows EXCEPT ![l.date] = @ + 1]
          /\ loads' = (loads \ {l}) \cup {[l EXCEPT !.pc = "read"]}
          /\ UNCHANGED <<insertErrors, loadError, appLoading>>
     ELSE /\ insertErrors' = insertErrors \cup {"loadData"}
          /\ loads' = loads \ {l}
          /\ loadError' = TRUE
          /\ appLoading' = FALSE
          /\ UNCHANGED dailyLogRows
  /\ UNCHANGED <<selectedDate, logCache, fetches, dailyLog, mutations, request, written,
                 numDayOps, outsideRows>>

\* The getOrCreateDailyLog of a loadData resolves: logCache.set, setDailyLog,
\* prefetchSurroundingDays, and setLoading(false) in the finally block.
DayLoadResolve(l) ==
  /\ l \in loads /\ l.pc = "read"
  /\ logCache' = [logCache EXCEPT ![l.date] = StoredLog(l.date)]
  /\ dailyLog' = Served(StoredLog(l.date), FALSE)
  /\ fetches' = fetches \cup prefetchSurroundingDays(logCache', l.date)
  /\ loads' = loads \ {l}
  /\ appLoading' = FALSE
  /\ UNCHANGED <<selectedDate, mutations, loadError, request, written, numDayOps, outsideDays>>

\* An await of loadData rejects: setError in the catch block, setLoading(false)
\* in the finally block.
DayLoadFails(l) ==
  /\ l \in loads
  /\ loads' = loads \ {l}
  /\ loadError' = TRUE
  /\ appLoading' = FALSE
  /\ UNCHANGED <<selectedDate, logCache, fetches, dailyLog, mutations, request, written,
                 numDayOps, outsideDays>>

\* The getOrCreateDailyLog of a prefetch: the SELECT of the row.
FetchSelectRow(f) ==
  /\ f \in fetches /\ f.pc = "fetch"
  /\ fetches' = (fetches \ {f}) \cup {[f EXCEPT !.pc = AfterSelect(f.date)]}
  /\ UNCHANGED <<selectedDate, logCache, loads, dailyLog, mutations, dayVars, outsideRows>>

\* The getOrCreateDailyLog of a prefetch: INSERT INTO daily_logs; when it is
\* rejected the catch of prefetchSurroundingDays logs a warning.
FetchInsertRow(f) ==
  /\ f \in fetches /\ f.pc = "insert"
  /\ IF UniqueIndexAllows(f.date)
     THEN /\ dailyLogRows' = [dailyLogRows EXCEPT ![f.date] = @ + 1]
          /\ fetches' = (fetches \ {f}) \cup {[f EXCEPT !.pc = "read"]}
          /\ UNCHANGED insertErrors
     ELSE /\ insertErrors' = insertErrors \cup {"prefetch"}
          /\ fetches' = fetches \ {f}
          /\ UNCHANGED dailyLogRows
  /\ UNCHANGED <<selectedDate, logCache, loads, dailyLog, mutations, appLoading, loadError,
                 request, written, numDayOps, outsideRows>>

\* The getOrCreateDailyLog of a prefetch resolves: logCache.set(date, log).
DayFetchResolve(f) ==
  /\ f \in fetches /\ f.pc = "read"
  /\ logCache' = [logCache EXCEPT ![f.date] = StoredLog(f.date)]
  /\ fetches' = fetches \ {f}
  /\ UNCHANGED <<selectedDate, loads, dailyLog, mutations, dayVars, outsideDays>>

\* handleTextSubmit, or handleMicPress while recording, up to the await of
\* parseFoodInput: todayLog is the log on display. The input bar is rendered
\* when the screen is neither loading nor showing a load error, and is live
\* when no attempt is extracting or saving.
SendRequest ==
  /\ ~appLoading /\ ~loadError
  /\ request = <<>> /\ mutations = {}
  /\ numDayOps < MaxDayOps
  /\ numDayOps' = numDayOps + 1
  /\ request' = <<[todayLog |-> dailyLog.date]>>
  /\ UNCHANGED <<cacheVars, dailyLog, mutations, appLoading, loadError, written, outsideDays>>

\* parseFoodInput resolves and the parsed food is set: the save effect of the
\* next render runs up to its await of replaceDailyFoodEntries(dailyLog.dailyLogID),
\* holding the dailyLog and the refresh of that render.
RequestResolves ==
  /\ request # <<>>
  /\ request' = <<>>
  /\ mutations' = {[kind |-> "save", todayLog |-> request[1].todayLog,
                    date |-> dailyLog.date, refreshDate |-> selectedDate]}
  /\ UNCHANGED <<cacheVars, dailyLog, appLoading, loadError, written, numDayOps, outsideDays>>

\* parseFoodInput rejects: nothing is saved.
RequestFails ==
  /\ request # <<>>
  /\ request' = <<>>
  /\ UNCHANGED <<cacheVars, dailyLog, mutations, appLoading, loadError, written, numDayOps,
                 outsideDays>>

\* The replaceDailyFoodEntries of the save effect resolves, and the effect goes
\* on to refresh(): invalidateCache(selectedDate) and loadData(selectedDate)
\* up to its first await.
DaySaveWritten(m) ==
  /\ m \in mutations
  /\ mutations' = mutations \ {m}
  /\ written' = written \cup
       {[todayLog |-> m.todayLog, date |-> m.date, invalidated |-> m.refreshDate]}
  /\ logCache' = Deleted(m.refreshDate)
  /\ loads' = loads \cup LoadDataCall(m.refreshDate)
  /\ appLoading' = TRUE
  /\ loadError' = FALSE
  /\ UNCHANGED <<selectedDate, fetches, dailyLog, request, numDayOps, outsideDays>>

\* The replaceDailyFoodEntries of the save effect rejects: the catch block.
DaySaveFails(m) ==
  /\ m \in mutations
  /\ mutations' = mutations \ {m}
  /\ UNCHANGED <<cacheVars, dailyLog, dayVars, outsideDays>>

NextDays ==
  \/ \E newDate \in Dates : DayChangeDate(newDate)
  \/ \E l \in loads : DayCacheCheck(l)
  \/ \E l \in loads : DaySelectRow(l)
  \/ \E l \in loads : DayInsertRow(l)
  \/ \E l \in loads : DayLoadResolve(l)
  \/ \E l \in loads : DayLoadFails(l)
  \/ \E f \in fetches : FetchSelectRow(f)
  \/ \E f \in fetches : FetchInsertRow(f)
  \/ \E f \in fetches : DayFetchResolve(f)
  \/ SendRequest
  \/ RequestResolves
  \/ RequestFails
  \/ \E m \in mutations : DaySaveWritten(m)
  \/ \E m \in mutations : DaySaveFails(m)

SpecDays == InitDays /\ [][NextDays]_vars

\* The Capture Controller is Idle: no session of the Voice module is open
\* and no stop is in progress.
Idle == voice.phase = "off" /\ stops = {}

\* C22: a startRecording call made while the Capture Controller is not Idle
\* fails with AlreadyActive and changes nothing: the session of the Voice
\* module stays the one it was and the transcript is not cleared.
C22_StartWhileActiveFails ==
  [][((\E ok \in BOOLEAN : StartRecordingCall(ok)) /\ ~Idle)
       => /\ error' = <<"AlreadyActive">>
          /\ UNCHANGED <<voice, transcript, transcriptRef>>]_vars

\* C23: a stopRecording whose session delivers a final result and whose
\* timeout has not fired returns that final result, never an earlier partial
\* one or nothing.
C23_StopReturnsFinal ==
  [][\A c \in stops :
       (StopRecordingReturns(c) /\ timers = numStops /\ voice.phase \in {"finishing", "off"}
          /\ voice.session \notin {o.session : o \in outcomes})
         => c.result = Final(voice.session)]_vars

\* C24: cancelRecording leaves isRecording false, and no transcript heard in
\* a session that was cancelled is handed to parseFoodInput afterwards.
C24_CancelDiscardsSession ==
  [][/\ (\E ok \in BOOLEAN : CancelRecordingCall(ok)) => ~isRecording'
     /\ \A h \in handed' \ handed : h.text.session \notin cancelledSessions]_vars

\* The recording session s is over.
SessionOver(s) == s < voice.session \/ (s = voice.session /\ Idle)

\* C25: a recording session yields one outcome among a transcript handed to
\* parseFoodInput, a silent reset and a surfaced error: never two, and not
\* none once it is over.
C25_OneOutcomePerSession ==
  \A s \in 1..numSessions :
    /\ Cardinality({o \in outcomes : o.session = s}) <= 1
    /\ SessionOver(s) => \E o \in outcomes : o.session = s

\* C26, as the code has it: onSpeechError leaves isRecording false; an error
\* with code recognition_fail, or whose message contains 'No speech
\* detected', leaves error null, any other error leaves it non-null.
C26_SilentResetByCodeOrMessage ==
  [][\A e \in SpeechErrors :
       SpeechError(e) =>
         /\ ~isRecording'
         /\ (error' = <<>>) <=>
              (e.code = "recognition_fail" \/ includes(e.message, "No speech detected"))]_vars

\* C26, as the specification states it: only the code recognition_fail makes
\* the reset silent.
C26_SilentResetByCodeOnly ==
  [][\A e \in SpeechErrors :
       SpeechError(e) =>
         /\ ~isRecording'
         /\ (error' = <<>>) <=> (e.code = "recognition_fail")]_vars

\* An error without a message has been surfaced under the fallback text.
C26_Witness ==
  /\ ~isRecording
  /\ voice.phase = "off"
  /\ error = <<"Speech recognition error">>
  /\ \E o \in outcomes : o.session = voice.session /\ o.kind = "error"

\* The fields as the user's edit of one of them leaves them.
Edited(field, value) == [values EXCEPT ![field] = value]

\* Exactly three fields are set, each to a number.
ThreeNumbers(vals) ==
  /\ countSetFields(vals) = 3
  /\ \A f \in MacroFields : vals[f].set => vals[f].num

\* n is an integer nearest to num / d.
Nearest(n, num, d) == 2 * (IF d * n >= num THEN d * n - num ELSE num - d * n) <= d

\* The field missing of vals is a number that solves
\* calories = 4 * protein + 4 * carbs + 9 * fat, rounded to a nearest integer.
Solves(vals, missing) ==
  /\ vals[missing].set /\ vals[missing].num
  /\ LET cal == vals.calories.n
         p == vals.protein.n
         c == vals.carbs.n
         f == vals.fat.n
     IN  CASE missing = "calories" -> cal = 4 * p + 4 * c + 9 * f
           [] missing = "protein" -> Nearest(p, cal - 4 * c - 9 * f, 4)
           [] missing = "carbs" -> Nearest(c, cal - 4 * p - 9 * f, 4)
           [] missing = "fat" -> Nearest(f, cal - 4 * p - 4 * c, 9)

\* C28, as the specification states it: whenever an edit leaves exactly three
\* of the four fields set, the fourth is filled from the identity and
\* calculatedField names it.
C28_ThreeSetFillsFourth ==
  [][\A field \in MacroFields \ {"calories"}, value \in Typed :
       (SetMacro(field, value) /\ ThreeNumbers(Edited(field, value)))
         => /\ calculatedField' = getMissingField(Edited(field, value))
            /\ Solves(values', calculatedField')]_vars

\* C28, as the code has it: an edit of a field other than the calculated one
\* that leaves exactly three fields set fills the fourth from the identity,
\* rounded to a nearest integer, keeps the three as typed and names the
\* fourth in calculatedField; an edit of the calculated field itself computes
\* nothing and clears calculatedField.
C28_ThreeSetFillsFourthUnlessOwn ==
  [][\A field \in MacroFields \ {"calories"}, value \in Typed :
       SetMacro(field, value) =>
         IF calculatedField = field
         THEN values' = Edited(field, value) /\ calculatedField' = ""
         ELSE ThreeNumbers(Edited(field, value)) =>
                /\ calculatedField' = getMissingField(Edited(field, value))
                /\ calculatedField' # ""
                /\ \A f \in MacroFields \ {calculatedField'} : values'[f] = Edited(field, value)[f]
                /\ Solves(values', calculatedField')]_vars

\* Protein 100, carbs 100 and fat 50 typed after the calories were cleared:
\* the calories are calculated, 1250.
C28_Witness ==
  /\ calculatedField = "calories"
  /\ values = [calories |-> String(1250), protein |-> String(100), carbs |-> String(100),
               fat |-> String(50)]

\* C29: while the calories are the calculated field, typing a number into
\* another field recomputes the calories from the three new values and the
\* calories stay the calculated field.
C29_CaloriesRecomputed ==
  [][\A field \in MacroFields \ {"calories"}, value \in Typed :
       (SetMacro(field, value) /\ calculatedField = "calories" /\ value.num)
         => /\ calculatedField' = "calories"
            /\ values'[field] = value
            /\ Solves(values', "calories")]_vars

\* The calendar day the device's wall clock shows at a time.
WallClockDay(time) ==
  LET local == FromDay(2023, 0, (time + tz) \div 48) IN <<local[1], local[2] + 1, local[3]>>

\* The day number of a day key.
DayNumber(key) == MakeDay(key[1], key[2] - 1, key[3])

\* C30: a day key set to today is the calendar day of the device's wall clock
\* at that moment, not the UTC day; and the key offset by N days from a key
\* is the calendar day N days away from it.
C30_LocalDayKeys ==
  /\ selectedDay = WallClockDay(keyedAt)
  /\ \A i \in DOMAIN prefetched.keys :
       DayNumber(prefetched.keys[i]) = DayNumber(prefetched.centre) + i

\* In the build with the local helpers the day keys are local and offsets
\* are exact; the keys of the window cross the end of February and of the year.
LocalHelpersKeepLocalDays == dateImpl = "local" => C30_LocalDayKeys

FoodOf(path) == IF path = "voice" THEN parsedFood ELSE textParsedFood

C34_SavedToRequestedDay ==
  \A w \in written : w.date = w.todayLog /\ w.invalidated = w.todayLog

\* C35: whenever loading is false and no load error takes the place of the
\* log, the log on display is that of the selected date.
C35_ShownDayIsSelected == (~appLoading /\ ~loadError) => dailyLog.date = selectedDate

\* C36: isProcessing is true whenever a voice extraction that was not
\* cancelled is in flight.
C36_ProcessingWhileExtracting ==
  (\E c \in calls : c.path = "voice" /\ c.id \notin cancelledAttempts) => isProcessing

\* C37: the backgrounding message is the error of an attempt only if the app
\* went to the background while that attempt's own extraction was in flight.
C37_BackgroundMessageOwnAttempt ==
  /\ llmError.msg = "backgrounded" => llmError.id \in backgroundedAttempts
  /\ textError.msg = "backgrounded" => textError.id \in backgroundedAttempts

\* C38: a getOrCreateDailyLog that runs while a replaceDailyFoodEntries is
\* running returns the day as it was before the call or as the call leaves
\* it, never a state in between.
C38_ReadsIsolated ==
  (view.pc = "read" /\ Running) =>
    view.log \in {DailyLogOf(rp.snap), DailyLogOf(ReplaceAll(rp.snap, rp.foodData))}

\* C39: when a loadData and a prefetch materialize the same date together,
\* the date ends with exactly one daily_logs row and neither call fails.
C39_OneRowNoFailure ==
  /\ \A date \in Dates : dailyLogRows[date] <= 1
  /\ insertErrors = {}

\* C40: whenever an attempt is extracting or saving, isProcessing,
\* isTextProcessing and isSavingFood are all false again at some later moment,
\* provided every extraction and persistence call returns or fails.
C40_ReturnsToIdle == isBusy ~> ~isBusy

\* Both attempts are over, one of them cancelled while it was extracting, and
\* no call is left in flight.
C40_Witness ==
  /\ ~isBusy /\ calls = {} /\ saves = {}
  /\ nextAttempt > 2
  /\ cancelledAttempts # {}
====
